---------------------------- MODULE Spec2Model ----------------------------
(***************************************************************************)
(* The layered map of experimental/storage/layered-map: a persistent,      *)
(* versioned key-value map.  Each build (new_layer_with_hasher) merges a   *)
(* batch of (key, value) pairs into the top layer and yields a new         *)
(* immutable layer: a flattened peak (FlattenPerfectTree, an array of the  *)
(* top trie levels) and the trie below it.                                 *)
(*                                                                         *)
(* Nodes are immutable values.  Every node created by a build carries the  *)
(* number of the layer that created it, so a node of an older layer that   *)
(* appears in a newer layer is the very node of the older layer (a weak    *)
(* reference to it), never a copy: a copy would carry the newer number.    *)
(*                                                                         *)
(* The source under map/new_layer_impl.rs and flatten_perfect_tree.rs is a *)
(* snapshot that cannot finish any build as it is written:                 *)
(*   - FptRef::expect_sub_trees has the body todo!();                      *)
(*   - SubTreeBuilder::init_pending_build take()s position_in_new_peak,    *)
(*     which leaves None behind for SubTreeBuilder::branch to unwrap();    *)
(*   - SubTreeBuilder::branch unwrap()s position_in_new_peak also below    *)
(*     the peak, where it is None by construction.                         *)
(* The variable as_written selects between the source exactly as written   *)
(* (SpecSrc) and the source with these three places completed the way      *)
(* sections 4.1 and 4.3 of the specification describe them (Spec).         *)
(*                                                                         *)
(* Spec and SpecSrc take every new_layer call as one step.  SpecSteps      *)
(* takes one call apart into the steps of its builders, the two children   *)
(* of every split in the peak running in any order (in_flight).  SpecFork  *)
(* builds layers side by side and one after the other from any layer held. *)
(* SpecFpt is the FlattenPerfectTree on its own, as written (held_tree).   *)
(*                                                                         *)
(* SpecSchedule is another part of the repository: the                     *)
(* ExecutionSchedulePhase of the consensus pipeline                        *)
(* (consensus/src/pipeline/execution_schedule_phase.rs), which schedules   *)
(* the ordered blocks of a request for execution (phase).  SpecWait is the *)
(* same phase with the task that process returns: it awaits the compute    *)
(* futures and holds the lifetime guard; SpecWaitLive adds the fairness of *)
(* a spawned task.  SpecListen is the PeerListener of the network builder  *)
(* (network/builder/src/peer_listener.rs): the loop over inbound           *)
(* connections and the admission of each (listener).                       *)
(***************************************************************************)
EXTENDS Integers, Sequences, FiniteSets, TLC

VARIABLES
    layers,      \* every MapLayer built so far (all are still held as snapshots)
    outcome,     \* the last new_layer call: its receiver, its batch and how it
                 \* ended ("none" before the first call, "ok", or the panic)
    as_written,  \* TRUE: the source as written; FALSE: its three holes completed
    in_flight,   \* the build that is under way, builder by builder (SpecSteps)
    held_tree,   \* a FlattenPerfectTree, the views taken of it, the last call
                 \* on it (SpecFpt)
    phase,       \* the ExecutionSchedulePhase: execution_futures, the request
                 \* in process and the calls made for it (SpecSchedule,
                 \* SpecWait)
    listener     \* the PeerListener: its loop, the peers known, the last
                 \* connection it has dealt with (SpecListen)

vars == <<layers, outcome, as_written, in_flight, held_tree, phase, listener>>

(***************************************************************************)
(* Bounds of the model and constants of the program.                       *)
(***************************************************************************)
PeakHeight == 3      \* height of every peak (new_layer_with_hasher passes 10)
HashBits == 5        \* width of KeyHash (u64 in the program)
MaxBuilds == 2       \* new_layer calls that return in one behaviour
MaxBatch == 3        \* pairs in one batch
MaxWrites == 3       \* pairs in all the batches of one behaviour
MaxOrdered == 3      \* blocks in the ordered_blocks of one ExecutionRequest
MaxInbound == 2      \* greatest max_inbound_connections of a NetworkConfig

Keys == 1 .. 5

\* A key that no batch writes and readers look up; it collides with keys 1 and 2.
NeverWritten == Cardinality(Keys) + 1

RECURSIVE Pow2(_)
Pow2(n) == IF n = 0 THEN 1 ELSE 2 * Pow2(n - 1)

(***************************************************************************)
(* The hasher handed to new_layer_with_hasher.  Keys 1 and 2 collide;      *)
(* key 3 shares their peak slot and differs from them in the last bit of   *)
(* the hash only; key 4 differs from them in the first bit and so falls in *)
(* the other half of the peak; key 5 shares their peak slot and differs    *)
(* from them in the first bit below the foot of the peak; the key that is  *)
(* never written collides with keys 1 and 2.                               *)
(***************************************************************************)
hash_one(key) ==
    CASE key = 1 -> 0
      [] key = 2 -> 0
      [] key = NeverWritten -> 0
      [] key = 3 -> 1
      [] key = 4 -> Pow2(HashBits - 1)
      [] OTHER   -> Pow2(HashBits - PeakHeight)

\* KeyHash::bit: bit `depth`, counted from the most significant one.
bit(key_hash, depth) == (key_hash \div Pow2(HashBits - 1 - depth)) % 2 = 1

\* Bind(v, F) is F(v): v is computed once, however often F reads it.
Bind(v, F(_)) == F(v)

None == [some |-> FALSE]
Some(v) == [some |-> TRUE, v |-> v]

(***************************************************************************)
(* Nodes.  NodeRef and NodeStrongRef are the same values here: every layer *)
(* is kept, so a weak reference always resolves to the node it names.      *)
(***************************************************************************)
Empty == [kind |-> "Empty"]
Leaf(key_hash, content, layer) ==
    [kind |-> "Leaf", key_hash |-> key_hash, content |-> content, layer |-> layer]
Internal(left, right, layer) ==
    [kind |-> "Internal", left |-> left, right |-> right, layer |-> layer]

UniqueLatest(key, value) == [kind |-> "UniqueLatest", key |-> key, value |-> value]
Collision(cells) == [kind |-> "Collision", map |-> cells]

Panic(msg) == [kind |-> "Panic", msg |-> msg]
IsPanic(x) == x.kind = "Panic"

\* NodeRef::get_strong and NodeStrongRef::weak_ref
get_strong(node, base_layer) == node
weak_ref(node) == node

\* NodeStrongRef::children(depth, base_layer)
children(node, depth, base_layer) ==
    CASE node.kind = "Internal" ->
            [kind |-> "Ok", left |-> get_strong(node.left, base_layer),
             right |-> get_strong(node.right, base_layer)]
      [] node.kind = "Leaf" ->
            IF bit(node.key_hash, depth)
            THEN [kind |-> "Ok", left |-> Empty, right |-> node]
            ELSE [kind |-> "Ok", left |-> node, right |-> Empty]
      [] OTHER -> [kind |-> "Ok", left |-> Empty, right |-> Empty]

(***************************************************************************)
(* LeafContent.                                                            *)
(***************************************************************************)
\* LeafContent as a map key -> CollisionCell; a UniqueLatest takes `layer`.
Cells(content, layer) ==
    IF content.kind = "UniqueLatest"
    THEN [k \in {content.key} |-> [value |-> content.value, layer |-> layer]]
    ELSE content.map

\* BTreeMap -> LeafContent: one key left is UniqueLatest, else Collision.
FromCells(cells) ==
    IF Cardinality(DOMAIN cells) = 1
    THEN LET k == CHOOSE k \in DOMAIN cells : TRUE
         IN  UniqueLatest(k, cells[k].value)
    ELSE Collision(cells)

\* LeafContent::combined_with(old_layer, new, new_layer, base_layer)
combined_with(old, old_layer, new, new_layer, base_layer) ==
    LET o == Cells(old, old_layer)
        n == Cells(new, new_layer)
    IN  FromCells([k \in DOMAIN o \cup DOMAIN n |->
                      IF k \in DOMAIN n THEN n[k] ELSE o[k]])

\* LeafContent::get
content_get(content, key) ==
    IF content.kind = "UniqueLatest"
    THEN IF content.key = key THEN Some(content.value) ELSE None
    ELSE IF key \in DOMAIN content.map THEN Some(content.map[key].value) ELSE None

(***************************************************************************)
(* FlattenPerfectTree: [leaves, height].  A read view (FptRef) is the      *)
(* slice of leaves it spans.  A mutable view (FptRefMut) is the range of   *)
(* slots [first, len] of the new peak it spans: the builder writes through *)
(* it, and the writes are gathered in the BuiltSubTree.                    *)
(***************************************************************************)
\* Vec::resize_with(num_leaves, || NodeRef::Empty) on an empty Vec.
RECURSIVE resize_with_Empty(_)
resize_with_Empty(num_leaves) ==
    IF num_leaves = 0 THEN <<>>
    ELSE Append(resize_with_Empty(num_leaves - 1), Empty)

\* A new_empty with one slot per node of the bottom level and one more level.
new_empty_too_wide(height) ==
    LET num_leaves == IF height = 0 THEN 0 ELSE Pow2(height)
    IN  [leaves |-> resize_with_Empty(num_leaves), height |-> height]

\* A new_empty that allocates one slot for a tree of no height.
new_empty_never_bare(height) ==
    LET num_leaves == IF height = 0 THEN 1 ELSE Pow2(height - 1)
    IN  [leaves |-> resize_with_Empty(num_leaves), height |-> height]

\* FlattenPerfectTree::new_empty
new_empty(height) ==
    LET num_leaves == IF height = 0 THEN 0 ELSE Pow2(height - 1)
    IN  [leaves |-> resize_with_Empty(num_leaves), height |-> height]

root(fpt) == fpt.leaves

root_mut(fpt) == [first |-> 1, len |-> Len(fpt.leaves)]

\* FptRef::is_single_node
is_single_node(view) == Len(view) = 1

\* FptRef::expect_sub_trees completed: the two halves of the slice.
split_in_half(view) ==
    [kind |-> "Ok",
     left |-> SubSeq(view, 1, Len(view) \div 2),
     right |-> SubSeq(view, Len(view) \div 2 + 1, Len(view))]

\* FptRef::expect_sub_trees: todo!() in the source.
expect_sub_trees(view) ==
    IF as_written THEN Panic("not yet implemented") ELSE split_in_half(view)

\* FptRef::expect_single_node
expect_single_node(view, base_layer) ==
    IF is_single_node(view)
    THEN get_strong(view[1], base_layer)
    ELSE Panic("assertion failed: self.is_single_node()")

\* FptRefMut::is_single_node
is_single_node_mut(view) == view.len = 1

\* A try_into_sub_trees whose two halves are one and the same half.
try_into_sub_trees_overlapping(view) ==
    IF view.len = 1
    THEN [left |-> None, right |-> None]
    ELSE [left |-> Some([first |-> view.first, len |-> view.len \div 2]),
          right |-> Some([first |-> view.first, len |-> view.len \div 2])]

\* FptRefMut::try_into_sub_trees
try_into_sub_trees(view) ==
    IF view.len = 1
    THEN [left |-> None, right |-> None]
    ELSE [left |-> Some([first |-> view.first, len |-> view.len \div 2]),
          right |-> Some([first |-> view.first + view.len \div 2,
                          len |-> view.len - view.len \div 2])]

\* FptRefMut::expect_into_single_node_ref: the slot a FootOfPeak writes.
expect_into_single_node_ref(view) ==
    IF is_single_node_mut(view) THEN view.first
    ELSE Panic("assertion failed: self.is_single_node()")

\* The leaves of a peak after the writes of a build, in the order they were made.
RECURSIVE written(_, _)
written(leaves, writes) ==
    IF writes = <<>> THEN leaves
    ELSE written([leaves EXCEPT ![writes[1].slot] = writes[1].node], Tail(writes))

(***************************************************************************)
(* Items: the batch, hashed and sorted.                                    *)
(***************************************************************************)
Item(kv) == [key_hash |-> hash_one(kv[1]), key |-> kv[1], value |-> kv[2]]

\* Item::full_key and its order: by key hash, then by key.
full_key_le(a, b) ==
    \/ a.key_hash < b.key_hash
    \/ a.key_hash = b.key_hash /\ a.key <= b.key

\* A step of a sort that is not stable: x goes before the items equal to it.
RECURSIVE sorted_insert_before_equal(_, _)
sorted_insert_before_equal(s, x) ==
    IF s = <<>> THEN <<x>>
    ELSE IF full_key_le(s[Len(s)], x) /\ ~ full_key_le(x, s[Len(s)])
    THEN Append(s, x)
    ELSE Append(sorted_insert_before_equal(SubSeq(s, 1, Len(s) - 1), x),
                s[Len(s)])

\* One step of the stable sort: x, which came later in the input, goes behind
\* every item that does not sort after it.
RECURSIVE sorted_insert(_, _)
sorted_insert(s, x) ==
    IF s = <<>> THEN <<x>>
    ELSE IF full_key_le(s[Len(s)], x) THEN Append(s, x)
    ELSE Append(sorted_insert(SubSeq(s, 1, Len(s) - 1), x), s[Len(s)])

\* A sort that loses the item that came first in the input.
RECURSIVE sorted_by_key_dropping_first(_)
sorted_by_key_dropping_first(items) ==
    IF Len(items) <= 1 THEN items
    ELSE IF Len(items) = 2 THEN <<items[2]>>
    ELSE sorted_insert(
            sorted_by_key_dropping_first(SubSeq(items, 1, Len(items) - 1)),
            items[Len(items)])

\* Itertools::sorted_by_key(Item::full_key): a stable sort.
RECURSIVE sorted_by_key(_)
sorted_by_key(items) ==
    IF items = <<>> THEN <<>>
    ELSE sorted_insert(sorted_by_key(SubSeq(items, 1, Len(items) - 1)),
                       items[Len(items)])

\* slice::partition_point(|item| !item.key_hash.bit(depth)): the index of the
\* first item whose bit `depth` is set, counted from 0 (the length of the first
\* part of a partitioned slice).
RECURSIVE partition_point(_, _)
partition_point(items, depth) ==
    IF items = <<>> \/ bit(items[1].key_hash, depth) THEN 0
    ELSE 1 + partition_point(Tail(items), depth)

\* A collect in which an earlier item keeps its place against a later one with
\* the same key.
RECURSIVE collect_cells_first_wins(_, _)
collect_cells_first_wins(items, layer) ==
    IF items = <<>> THEN <<>>
    ELSE LET rest == collect_cells_first_wins(
                        SubSeq(items, 1, Len(items) - 1), layer)
             last == items[Len(items)]
         IN  [k \in DOMAIN rest \cup {last.key} |->
                 IF k \in DOMAIN rest THEN rest[k]
                 ELSE [value |-> last.value, layer |-> layer]]

\* The BTreeMap that to_leaf_content collects: a later item replaces an earlier
\* one with the same key.
RECURSIVE collect_cells(_, _)
collect_cells(items, layer) ==
    IF items = <<>> THEN <<>>
    ELSE LET rest == collect_cells(SubSeq(items, 1, Len(items) - 1), layer)
             last == items[Len(items)]
         IN  [k \in DOMAIN rest \cup {last.key} |->
                 IF k = last.key THEN [value |-> last.value, layer |-> layer]
                 ELSE rest[k]]

\* A to_leaf_content that keeps one item whatever the keys.
to_leaf_content_one_key(items, layer) ==
    UniqueLatest(items[Len(items)].key, items[Len(items)].value)

\* A to_leaf_content that takes the pair of a lone item the wrong way round.
to_leaf_content_swapped(items, layer) ==
    IF Len(items) = 1
    THEN UniqueLatest(items[1].value, items[1].key)
    ELSE FromCells(collect_cells(items, layer))

\* A to_leaf_content that leaves a map of one key a Collision.
to_leaf_content_no_collapse(items, layer) ==
    IF Len(items) = 1
    THEN UniqueLatest(items[1].key, items[1].value)
    ELSE Collision(collect_cells(items, layer))

to_leaf_content(items, layer) ==
    IF Len(items) = 1
    THEN UniqueLatest(items[1].key, items[1].value)
    ELSE FromCells(collect_cells(items, layer))

(***************************************************************************)
(* PositionInfo: where the builder stands in the previous layer.           *)
(***************************************************************************)
AbovePeakFeet(fpt) == [kind |-> "AbovePeakFeet", fpt |-> fpt]
PeakFootOrBelow(node) == [kind |-> "PeakFootOrBelow", node |-> node]

is_in_peak(position_info) == position_info.kind = "AbovePeakFeet"

expect_peak_foot_or_below(position_info) ==
    IF position_info.kind = "AbovePeakFeet"
    THEN Panic("Still in Peak")
    ELSE position_info.node

\* A PositionInfo::children that turns to the strong node one level late: the
\* halves of the peak stay AbovePeakFeet down to one slot, and the node of the
\* slot is looked up only when its children are asked for.
PositionInfo_children_resolving_late(position_info, depth, base_layer) ==
    IF position_info.kind = "AbovePeakFeet"
    THEN IF is_single_node(position_info.fpt)
         THEN Bind(children(expect_single_node(position_info.fpt, base_layer),
                            depth, base_layer), LAMBDA sub :
                 IF IsPanic(sub) THEN sub
                 ELSE [kind |-> "Ok", left |-> PeakFootOrBelow(sub.left),
                       right |-> PeakFootOrBelow(sub.right)])
         ELSE Bind(expect_sub_trees(position_info.fpt), LAMBDA sub :
                 IF IsPanic(sub) THEN sub
                 ELSE [kind |-> "Ok", left |-> AbovePeakFeet(sub.left),
                       right |-> AbovePeakFeet(sub.right)])
    ELSE Bind(children(position_info.node, depth, base_layer), LAMBDA sub :
            IF IsPanic(sub) THEN sub
            ELSE [kind |-> "Ok", left |-> PeakFootOrBelow(sub.left),
                  right |-> PeakFootOrBelow(sub.right)])

\* PositionInfo::children
PositionInfo_children(position_info, depth, base_layer) ==
    IF position_info.kind = "AbovePeakFeet"
    THEN Bind(expect_sub_trees(position_info.fpt), LAMBDA sub :
            IF IsPanic(sub) THEN sub
            ELSE IF is_single_node(sub.left)
            THEN Bind(expect_single_node(sub.left, base_layer), LAMBDA l :
                 Bind(expect_single_node(sub.right, base_layer), LAMBDA r :
                    IF IsPanic(l) THEN l
                    ELSE IF IsPanic(r) THEN r
                    ELSE [kind |-> "Ok", left |-> PeakFootOrBelow(l),
                          right |-> PeakFootOrBelow(r)]))
            ELSE [kind |-> "Ok", left |-> AbovePeakFeet(sub.left),
                  right |-> AbovePeakFeet(sub.right)])
    ELSE Bind(children(position_info.node, depth, base_layer), LAMBDA sub :
            IF IsPanic(sub) THEN sub
            ELSE [kind |-> "Ok", left |-> PeakFootOrBelow(sub.left),
                  right |-> PeakFootOrBelow(sub.right)])

(***************************************************************************)
(* BuiltSubTree: what a builder hands to its parent.  `writes` are the     *)
(* writes into slots of the new peak that the builder and its descendants  *)
(* have made, in order, and `created` is the number of nodes they have     *)
(* allocated.                                                              *)
(***************************************************************************)
InOrAtFootOfPeak(writes, created) ==
    [kind |-> "InOrAtFootOfPeak", writes |-> writes, created |-> created]
BelowPeak(node, created) ==
    [kind |-> "BelowPeak", node |-> node, writes |-> <<>>, created |-> created]

\* NodeRef::new_leaf, NodeRef::new_internal: a node and the count of allocations.
Fresh(node) == [kind |-> "Ok", node |-> node, created |-> 1]
Reused(node) == [kind |-> "Ok", node |-> node, created |-> 0]

(***************************************************************************)
(* PendingBuild: AbovePeakFeet, FootOfPeak(slot) or BelowPeak.             *)
(***************************************************************************)
\* A seal_with_node that leaves the slot at the foot of the peak unwritten.
seal_with_node_no_write(pending_build, made) ==
    CASE pending_build.kind = "AbovePeakFeet" ->
            Panic("Trying to put node above peak feet.")
      [] pending_build.kind = "FootOfPeak" ->
            InOrAtFootOfPeak(<<>>, made.created)
      [] OTHER -> BelowPeak(made.node, made.created)

\* PendingBuild::seal_with_node; `made` is a node with its allocation count.
seal_with_node(pending_build, made) ==
    CASE pending_build.kind = "AbovePeakFeet" ->
            Panic("Trying to put node above peak feet.")
      [] pending_build.kind = "FootOfPeak" ->
            InOrAtFootOfPeak(<<[slot |-> pending_build.slot, node |-> made.node]>>,
                             made.created)
      [] OTHER -> BelowPeak(made.node, made.created)

\* A make_parent that stamps the Internal node with the layer after the new one.
make_parent_next_layer(left, right, layer) ==
    CASE left.kind = "Empty" /\ right.kind = "Leaf" -> Reused(right)
      [] left.kind = "Leaf" /\ right.kind = "Empty" -> Reused(left)
      [] left.kind = "Empty" /\ right.kind = "Empty" -> Reused(Empty)
      [] OTHER -> Fresh(Internal(left, right, layer + 1))

\* A make_parent that does not collapse: a Leaf next to Empty gets a parent.
make_parent_without_collapse(left, right, layer) ==
    CASE left.kind = "Empty" /\ right.kind = "Empty" -> Reused(Empty)
      [] OTHER -> Fresh(Internal(left, right, layer))

\* PendingBuild::make_parent
make_parent(left, right, layer) ==
    CASE left.kind = "Empty" /\ right.kind = "Leaf" -> Reused(right)
      [] left.kind = "Leaf" /\ right.kind = "Empty" -> Reused(left)
      [] left.kind = "Empty" /\ right.kind = "Empty" -> Reused(Empty)
      [] OTHER -> Fresh(Internal(left, right, layer))

\* A seal_with_children that allocates a node for a parent inside the peak too.
seal_with_children_allocating(pending_build, left, right, layer) ==
    CASE left.kind = "InOrAtFootOfPeak" /\ right.kind = "InOrAtFootOfPeak" ->
            IF pending_build.kind = "AbovePeakFeet"
            THEN InOrAtFootOfPeak(left.writes \o right.writes,
                                  left.created + right.created + 1)
            ELSE Panic("Expecting nodes.")
      [] left.kind = "BelowPeak" /\ right.kind = "BelowPeak" ->
            Bind(make_parent(left.node, right.node, layer), LAMBDA internal_node :
                seal_with_node(pending_build,
                    [internal_node EXCEPT
                        !.created = @ + left.created + right.created]))
      [] OTHER -> Panic("Children should be of same flavor.")

\* PendingBuild::seal_with_children
seal_with_children(pending_build, left, right, layer) ==
    CASE left.kind = "InOrAtFootOfPeak" /\ right.kind = "InOrAtFootOfPeak" ->
            IF pending_build.kind = "AbovePeakFeet"
            THEN InOrAtFootOfPeak(left.writes \o right.writes,
                                  left.created + right.created)
            ELSE Panic("Expecting nodes.")
      [] left.kind = "BelowPeak" /\ right.kind = "BelowPeak" ->
            Bind(make_parent(left.node, right.node, layer), LAMBDA internal_node :
                seal_with_node(pending_build,
                    [internal_node EXCEPT
                        !.created = @ + left.created + right.created]))
      [] OTHER -> Panic("Children should be of same flavor.")

\* BuiltSubTree::finalize
finalize(built) ==
    IF built.kind = "InOrAtFootOfPeak" THEN built
    ELSE Panic("Haven't reached the peak.")

(***************************************************************************)
(* SubTreeBuilder: [map, depth, position_info, position_in_new_peak,       *)
(* items].  map is the receiver as the builder reads it: the number of its *)
(* top layer and its base layer.                                           *)
(***************************************************************************)
\* An init_pending_build that takes a foot with nothing to write over a node
\* of the receiver for a place below the peak, to hand the node up.
init_pending_build_handing_up(self) ==
    [pending_build |->
        IF ~ self.position_in_new_peak.some THEN [kind |-> "BelowPeak"]
        ELSE IF is_single_node_mut(self.position_in_new_peak.v)
        THEN IF /\ self.items = <<>>
                /\ self.position_info.kind = "PeakFootOrBelow"
                /\ self.position_info.node.kind # "Empty"
             THEN [kind |-> "BelowPeak"]
             ELSE [kind |-> "FootOfPeak",
                   slot |-> expect_into_single_node_ref(
                               self.position_in_new_peak.v)]
        ELSE [kind |-> "AbovePeakFeet"],
     self |->
        IF as_written THEN [self EXCEPT !.position_in_new_peak = None] ELSE self]

\* SubTreeBuilder::init_pending_build.  Option::take leaves None in the builder;
\* the completed source leaves the view in place for branch to split.
init_pending_build(self) ==
    [pending_build |->
        IF ~ self.position_in_new_peak.some THEN [kind |-> "BelowPeak"]
        ELSE IF is_single_node_mut(self.position_in_new_peak.v)
        THEN [kind |-> "FootOfPeak",
              slot |-> expect_into_single_node_ref(self.position_in_new_peak.v)]
        ELSE [kind |-> "AbovePeakFeet"],
     self |->
        IF as_written THEN [self EXCEPT !.position_in_new_peak = None] ELSE self]

\* SubTreeBuilder::all_items_same_key_hash
all_items_same_key_hash(self) ==
    IF self.items = <<>> THEN Panic("assertion failed: !items.is_empty()")
    ELSE IF self.items[1].key_hash = self.items[Len(self.items)].key_hash
    THEN Some(self.items[1].key_hash)
    ELSE None

\* SubTreeBuilder::still_in_peak
still_in_peak(self) ==
    \/ is_in_peak(self.position_info)
    \/ /\ self.position_in_new_peak.some
       /\ ~ is_single_node_mut(self.position_in_new_peak.v)

\* A new_leaf that stamps the receiver's layer number.
new_leaf_stale_layer(self, key_hash, items) ==
    Fresh(Leaf(key_hash, to_leaf_content(items, self.map.top_layer),
               self.map.top_layer))

\* A new_leaf that allocates nothing and leaves the place Empty.
new_leaf_left_empty(self, key_hash, items) == Reused(Empty)

\* SubTreeBuilder::new_leaf
new_leaf(self, key_hash, items) ==
    LET new_layer == self.map.top_layer + 1
    IN  Fresh(Leaf(key_hash, to_leaf_content(items, new_layer), new_layer))

\* A new_leaf_overwriting_old that combines the new content with the old one,
\* the wrong way round.
new_leaf_old_wins(self, key_hash, old_leaf, new_items) ==
    LET new_layer == self.map.top_layer + 1
        new == to_leaf_content(new_items, new_layer)
        content == combined_with(new, new_layer, old_leaf.content, old_leaf.layer,
                                 self.map.base_layer)
    IN  Fresh(Leaf(key_hash, content, new_layer))

\* A new_leaf_overwriting_old that forgets the old leaf.
new_leaf_forgetting_old(self, key_hash, old_leaf, new_items) ==
    new_leaf(self, key_hash, new_items)

\* A new_leaf_overwriting_old that drops an old leaf at or under the base layer.
new_leaf_pruning_old(self, key_hash, old_leaf, new_items) ==
    LET new_layer == self.map.top_layer + 1
        new == to_leaf_content(new_items, new_layer)
    IN  Fresh(Leaf(key_hash,
                   IF old_leaf.layer <= self.map.base_layer THEN new
                   ELSE combined_with(old_leaf.content, old_leaf.layer, new,
                                      new_layer, self.map.base_layer),
                   new_layer))

\* SubTreeBuilder::new_leaf_overwriting_old
new_leaf_overwriting_old(self, key_hash, old_leaf, new_items) ==
    LET new_layer == self.map.top_layer + 1
        old == old_leaf.content
        new == to_leaf_content(new_items, new_layer)
        content == combined_with(old, old_leaf.layer, new, new_layer,
                                 self.map.base_layer)
    IN  Fresh(Leaf(key_hash, content, new_layer))

Continue == [kind |-> "Continue"]
End(made) == [kind |-> "End", made |-> made]

\* A maybe_end_recursion that branches further on every Leaf, the Leaf of the
\* items' own KeyHash too.
maybe_end_recursion_past_leaf(self) ==
    IF still_in_peak(self) THEN Continue
    ELSE LET node == expect_peak_foot_or_below(self.position_info)
         IN  IF IsPanic(node) THEN node
             ELSE IF self.items = <<>> THEN End(Reused(weak_ref(node)))
             ELSE LET same == all_items_same_key_hash(self)
                  IN  IF ~ same.some THEN Continue
                      ELSE CASE node.kind = "Empty" ->
                                    End(new_leaf(self, same.v, self.items))
                             [] OTHER -> Continue

\* A maybe_end_recursion that puts the new leaf in the place of a Leaf of
\* another KeyHash.
maybe_end_recursion_replacing(self) ==
    IF still_in_peak(self) THEN Continue
    ELSE LET node == expect_peak_foot_or_below(self.position_info)
         IN  IF IsPanic(node) THEN node
             ELSE IF self.items = <<>> THEN End(Reused(weak_ref(node)))
             ELSE LET same == all_items_same_key_hash(self)
                  IN  IF ~ same.some THEN Continue
                      ELSE CASE node.kind = "Empty" ->
                                    End(new_leaf(self, same.v, self.items))
                             [] node.kind = "Leaf" ->
                                    IF node.key_hash = same.v
                                    THEN End(new_leaf_overwriting_old(
                                                self, same.v, node, self.items))
                                    ELSE End(new_leaf(self, same.v, self.items))
                             [] OTHER -> Continue

\* A maybe_end_recursion that copies an untouched Leaf into the new layer.
maybe_end_recursion_copying(self) ==
    IF still_in_peak(self) THEN Continue
    ELSE LET node == expect_peak_foot_or_below(self.position_info)
         IN  IF IsPanic(node) THEN node
             ELSE IF self.items = <<>>
             THEN IF node.kind = "Leaf"
                  THEN End(Fresh(Leaf(node.key_hash, node.content,
                                      self.map.top_layer + 1)))
                  ELSE End(Reused(weak_ref(node)))
             ELSE LET same == all_items_same_key_hash(self)
                  IN  IF ~ same.some THEN Continue
                      ELSE CASE node.kind = "Empty" ->
                                    End(new_leaf(self, same.v, self.items))
                             [] node.kind = "Leaf" ->
                                    IF node.key_hash = same.v
                                    THEN End(new_leaf_overwriting_old(
                                                self, same.v, node, self.items))
                                    ELSE Continue
                             [] OTHER -> Continue

\* SubTreeBuilder::maybe_end_recursion
maybe_end_recursion(self) ==
    IF still_in_peak(self) THEN Continue
    ELSE LET node == expect_peak_foot_or_below(self.position_info)
         IN  IF IsPanic(node) THEN node
             ELSE IF self.items = <<>> THEN End(Reused(weak_ref(node)))
             ELSE LET same == all_items_same_key_hash(self)
                  IN  IF ~ same.some THEN Continue
                      ELSE CASE node.kind = "Empty" ->
                                    End(new_leaf(self, same.v, self.items))
                             [] node.kind = "Leaf" ->
                                    IF node.key_hash = same.v
                                    THEN End(new_leaf_overwriting_old(
                                                self, same.v, node, self.items))
                                    ELSE Continue
                             [] OTHER -> Continue

\* A branch_into that splits the items one place off: the item at the pivot
\* goes to neither child.
branch_into_past_pivot(self, sub, out, pivot) ==
    [kind |-> "Ok",
     left |-> [map |-> self.map, depth |-> self.depth + 1,
               position_info |-> sub.left,
               position_in_new_peak |-> out.left,
               items |-> SubSeq(self.items, 1, pivot)],
     right |-> [map |-> self.map, depth |-> self.depth + 1,
                position_info |-> sub.right,
                position_in_new_peak |-> out.right,
                items |-> SubSeq(self.items, pivot + 2, Len(self.items))]]

\* The two builders that branch makes of `self`, the children `sub` of its
\* position, the halves `out` of its view of the new peak and the pivot.
branch_into(self, sub, out, pivot) ==
    [kind |-> "Ok",
     left |-> [map |-> self.map, depth |-> self.depth + 1,
               position_info |-> sub.left,
               position_in_new_peak |-> out.left,
               items |-> SubSeq(self.items, 1, pivot)],
     right |-> [map |-> self.map, depth |-> self.depth + 1,
                position_info |-> sub.right,
                position_in_new_peak |-> out.right,
                items |-> SubSeq(self.items, pivot + 1, Len(self.items))]]

\* SubTreeBuilder::branch.  The source unwrap()s position_in_new_peak; the
\* completed source hands None down to both children once below the peak.
branch(self) ==
    Bind(PositionInfo_children(self.position_info, self.depth,
                               self.map.base_layer), LAMBDA sub :
        IF IsPanic(sub) THEN sub
        ELSE IF self.position_in_new_peak.some
        THEN branch_into(self, sub,
                         try_into_sub_trees(self.position_in_new_peak.v),
                         partition_point(self.items, self.depth))
        ELSE IF as_written
        THEN Panic("called Option::unwrap() on a None value")
        ELSE branch_into(self, sub, [left |-> None, right |-> None],
                         partition_point(self.items, self.depth)))

\* SubTreeBuilder::build
RECURSIVE build(_)
build(builder) ==
    Bind(init_pending_build(builder), LAMBDA init :
    Bind(maybe_end_recursion(init.self), LAMBDA step :
        CASE IsPanic(step) -> step
          [] step.kind = "End" -> seal_with_node(init.pending_build, step.made)
          [] OTHER ->
                Bind(branch(init.self), LAMBDA sub :
                    IF IsPanic(sub) THEN sub
                    ELSE Bind(build(sub.left), LAMBDA left :
                        IF IsPanic(left) THEN left
                        ELSE Bind(build(sub.right), LAMBDA right :
                            IF IsPanic(right) THEN right
                            ELSE seal_with_children(init.pending_build, left, right,
                                                    init.self.map.top_layer + 1))))))

(***************************************************************************)
(* MapLayer: [peak, layer, base_layer], and as a record of the call that   *)
(* built it: the batch (kvs), the index of the layer it was built on       *)
(* (parent, 0 for the first layer), the slots of its peak in the order     *)
(* they were written (writes) and the count of the nodes allocated.        *)
(* LayeredMap: a top layer and a base layer.                               *)
(***************************************************************************)
\* MapLayer::spawn
spawn(top, new_peak, base_layer) ==
    [peak |-> new_peak, layer |-> top.layer + 1, base_layer |-> base_layer]

\* A build whose slot references point into the receiver's peak as well.
peaks_after_in_place(peak, new_peak, writes) ==
    [receiver |-> [peak EXCEPT !.leaves = written(@, writes)],
     new_peak |-> [new_peak EXCEPT !.leaves = written(@, writes)]]

\* A build whose slot references point into the receiver's peak alone.
peaks_after_into_receiver(peak, new_peak, writes) ==
    [receiver |-> [peak EXCEPT !.leaves = written(@, writes)],
     new_peak |-> new_peak]

\* The two peaks once the build is over.  The builder reads the receiver's
\* peak through root() and holds root_mut() of new_peak alone, so the writes
\* of seal_with_node land in new_peak.
peaks_after(peak, new_peak, writes) ==
    [receiver |-> peak,
     new_peak |-> [new_peak EXCEPT !.leaves = written(@, writes)]]

\* A root builder that reads the new peak where it should read the receiver's.
root_builder_reading_new_peak(top, base_layer, kvs, new_peak) ==
    [map |-> [top_layer |-> top.layer, base_layer |-> base_layer],
     depth |-> 0,
     position_info |-> AbovePeakFeet(root(new_peak)),
     position_in_new_peak |-> Some(root_mut(new_peak)),
     items |-> sorted_by_key([i \in 1 .. Len(kvs) |-> Item(kvs[i])])]

\* The SubTreeBuilder that new_layer_with_hasher starts from: the items hashed
\* and sorted, the root of the receiver's peak and the root of new_peak.
root_builder(top, base_layer, kvs, new_peak) ==
    [map |-> [top_layer |-> top.layer, base_layer |-> base_layer],
     depth |-> 0,
     position_info |-> AbovePeakFeet(root(top.peak)),
     position_in_new_peak |-> Some(root_mut(new_peak)),
     items |-> sorted_by_key([i \in 1 .. Len(kvs) |-> Item(kvs[i])])]

\* A new_layer_with_hasher that hands spawn the new layer number for base layer.
new_layer_with_layer_as_base(top, base_layer, kvs) ==
    LET new_peak == new_empty(PeakHeight)
    IN  Bind(build(root_builder(top, base_layer, kvs, new_peak)), LAMBDA built :
            IF IsPanic(built) THEN built
            ELSE IF IsPanic(finalize(built)) THEN finalize(built)
            ELSE Bind(peaks_after(top.peak, new_peak, built.writes), LAMBDA after :
                 [kind |-> "Ok", created |-> built.created,
                  writes |-> [n \in 1 .. Len(built.writes) |->
                                 built.writes[n].slot],
                  receiver |-> after.receiver,
                  layer |-> spawn(top, after.new_peak, top.layer + 1)]))

\* LayeredMap::new_layer_with_hasher, on the map whose top layer is `top`.  The
\* answer is the MapLayer returned and the receiver's peak after the call, with
\* the slots in the order they were written and the count of the nodes
\* allocated, or the panic.
new_layer_with_hasher(top, base_layer, kvs) ==
    LET new_peak == new_empty(PeakHeight)
    IN  Bind(build(root_builder(top, base_layer, kvs, new_peak)), LAMBDA built :
            IF IsPanic(built) THEN built
            ELSE IF IsPanic(finalize(built)) THEN finalize(built)
            ELSE Bind(peaks_after(top.peak, new_peak, built.writes), LAMBDA after :
                 [kind |-> "Ok", created |-> built.created,
                  writes |-> [n \in 1 .. Len(built.writes) |->
                                 built.writes[n].slot],
                  receiver |-> after.receiver,
                  layer |-> spawn(top, after.new_peak, base_layer)]))

\* LayeredMap::get (read): down the peak by the top bits, then down the trie.
RECURSIVE get_below(_, _, _, _)
get_below(node, depth, key_hash, key) ==
    CASE node.kind = "Empty" -> None
      [] node.kind = "Leaf" ->
            IF node.key_hash = key_hash THEN content_get(node.content, key)
            ELSE None
      [] OTHER ->
            get_below(IF bit(key_hash, depth) THEN node.right ELSE node.left,
                      depth + 1, key_hash, key)

peak_index(fpt, key_hash) ==
    IF fpt.height <= 1 THEN 1
    ELSE key_hash \div Pow2(HashBits - (fpt.height - 1)) + 1

read(layer, key) ==
    LET key_hash == hash_one(key)
    IN  get_below(layer.peak.leaves[peak_index(layer.peak, key_hash)],
                  layer.peak.height - 1, key_hash, key)

(***************************************************************************)
(* A build taken apart.  SubTreeBuilder::build is a recursion: a builder   *)
(* in the peak makes its two children (branch), lets each of them build,   *)
(* and seals with what the two return.  The children do not depend on      *)
(* each other, so they may run one after the other, either first, or side  *)
(* by side.  While a build is under way every builder in the peak is a     *)
(* task: pending (made, not yet run), waiting (it has made its children    *)
(* and waits for both to return) or returned.  The task of the root has    *)
(* the number 1 and the children of the task p the numbers 2p and 2p + 1.  *)
(* A builder at a foot of the peak holds one slot of the new peak and no   *)
(* builder below it holds any: what is built below a foot is computed by   *)
(* the builder at the foot in one step.                                    *)
(***************************************************************************)
NoTask == [status |-> "none"]
PendingTask(builder) == [status |-> "pending", builder |-> builder]
WaitingTask(pending_build) ==
    [status |-> "waiting", pending_build |-> pending_build]
ReturnedTask(built) == [status |-> "returned", built |-> built]

\* No build is under way.
NoBuild == [active |-> FALSE]

\* No FlattenPerfectTree is held apart from the peaks of the layers.
NoTree == [held |-> FALSE]

\* No ExecutionSchedulePhase is running.
NoPhase == [running |-> FALSE]

\* No PeerListener is listening.
NoListener == [listening |-> FALSE]

RECURSIVE no_tasks(_)
no_tasks(n) == IF n = 0 THEN <<>> ELSE Append(no_tasks(n - 1), NoTask)

\* SubTreeBuilder::build up to the point where the two children are made: the
\* builder ends the recursion (the trie below a foot of the peak included) or
\* hands its two children over to be built.
run_builder(builder) ==
    Bind(init_pending_build(builder), LAMBDA init :
    Bind(maybe_end_recursion(init.self), LAMBDA step :
        IF IsPanic(step) THEN step
        ELSE IF step.kind = "Continue" /\ init.pending_build.kind = "AbovePeakFeet"
        THEN Bind(branch(init.self), LAMBDA sub :
                IF IsPanic(sub) THEN sub
                ELSE [kind |-> "Forked", pending_build |-> init.pending_build,
                      left |-> sub.left, right |-> sub.right])
        ELSE Bind(build(builder), LAMBDA built :
                IF IsPanic(built) THEN built
                ELSE [kind |-> "Returned", built |-> built])))

\* SubTreeBuilder::build from the point where a child returns: once both
\* children of a builder have returned it seals with the two and returns to
\* its own parent in turn.
RECURSIVE join_children(_, _, _)
join_children(tasks, p, layer) ==
    IF p = 1 THEN [kind |-> "Ok", tasks |-> tasks]
    ELSE LET parent == p \div 2
             left == tasks[2 * parent]
             right == tasks[2 * parent + 1]
         IN  IF left.status = "returned" /\ right.status = "returned"
             THEN Bind(seal_with_children(tasks[parent].pending_build,
                                          left.built, right.built, layer),
                       LAMBDA built :
                    IF IsPanic(built) THEN built
                    ELSE join_children(
                            [tasks EXCEPT ![parent] = ReturnedTask(built),
                                          ![2 * parent] = NoTask,
                                          ![2 * parent + 1] = NoTask],
                            parent, layer))
             ELSE [kind |-> "Ok", tasks |-> tasks]

(***************************************************************************)
(* The state machine.                                                      *)
(***************************************************************************)

Writes == LET RECURSIVE Sum(_)
              Sum(i) == IF i = 0 THEN 0 ELSE Len(layers[i].kvs) + Sum(i - 1)
          IN  Sum(Len(layers))

InitialLayer ==
    [peak |-> new_empty(PeakHeight), layer |-> 0, base_layer |-> 0,
     kvs |-> <<>>, parent |-> 0, writes |-> <<>>, created |-> 0]

InitCommon ==
    /\ layers = <<InitialLayer>>
    /\ outcome = [top_layer |-> 0, base_layer |-> 0, kvs |-> <<>>,
                  result |-> "none"]
    /\ in_flight = NoBuild
    /\ held_tree = NoTree
    /\ phase = NoPhase
    /\ listener = NoListener

Init == InitCommon /\ as_written = FALSE
InitSrc == InitCommon /\ as_written = TRUE

\* A caller takes the LayeredMap whose top layer is the held layer i and whose
\* base layer is base_layer, and calls new_layer(kvs) on it, kvs having the keys
\* `keys` in input order.  The build only clones values, so each pair written
\* gets a value of its own: the count of the pairs written before it in the
\* behaviour, plus one.  The MapLayer returned joins the layers held.
NewLayer ==
    /\ Len(layers) <= MaxBuilds
    /\ \E i \in 1 .. Len(layers) :
       \E base_layer \in 0 .. layers[i].layer :
       \E n \in 0 .. MaxBatch :
          /\ Writes + n <= MaxWrites
          /\ \E keys \in [1 .. n -> Keys] :
                LET kvs == [j \in 1 .. n |-> <<keys[j], Writes + j>>]
                IN  Bind(new_layer_with_hasher(layers[i], base_layer, kvs),
                         LAMBDA got :
                    /\ outcome' = [top_layer |-> i, base_layer |-> base_layer,
                                   kvs |-> kvs,
                                   result |-> IF IsPanic(got) THEN got.msg
                                              ELSE "ok"]
                    /\ layers' = IF IsPanic(got) THEN layers
                                 ELSE Append([layers EXCEPT
                                                ![i].peak = got.receiver],
                                        got.layer @@ [kvs |-> kvs, parent |-> i,
                                                      writes |-> got.writes,
                                                      created |-> got.created]))
    /\ UNCHANGED <<as_written, in_flight, held_tree, phase, listener>>

Next == NewLayer

Spec == Init /\ [][Next]_vars
SpecSrc == InitSrc /\ [][Next]_vars

(***************************************************************************)
(* The state machine of one build taken apart.  The build starts from a    *)
(* held layer of a map that a first call has written the keys 1 .. m to;   *)
(* its batch is a set of keys in ascending order (the order and the        *)
(* repetition of the keys of a batch are the subject of Spec).             *)
(***************************************************************************)
RECURSIVE ascending(_)
ascending(keys) ==
    IF keys = {} THEN <<>>
    ELSE LET last == CHOOSE k \in keys : \A other \in keys : other <= k
         IN  Append(ascending(keys \ {last}), last)

InitSteps ==
    /\ as_written = FALSE
    /\ outcome = [top_layer |-> 0, base_layer |-> 0, kvs |-> <<>>,
                  result |-> "none"]
    /\ in_flight = NoBuild
    /\ held_tree = NoTree
    /\ phase = NoPhase
    /\ listener = NoListener
    /\ \E m \in 0 .. MaxBatch :
          /\ m <= MaxWrites
          /\ m <= Cardinality(Keys)
          /\ LET kvs == [j \in 1 .. m |-> <<j, j>>]
                 got == new_layer_with_hasher(InitialLayer, 0, kvs)
             IN  layers = IF m = 0 THEN <<InitialLayer>>
                          ELSE <<InitialLayer,
                                 got.layer @@ [kvs |-> kvs, parent |-> 1,
                                               writes |-> got.writes,
                                               created |-> got.created]>>

\* new_layer_with_hasher up to builder.build(): the items, the new peak and the
\* builder of the root.
StartBuild ==
    /\ ~ in_flight.active
    /\ outcome.result = "none"
    /\ \E i \in 1 .. Len(layers) :
       \E base_layer \in 0 .. layers[i].layer :
       \E batch \in SUBSET Keys :
          /\ Cardinality(batch) <= MaxBatch
          /\ Writes + Cardinality(batch) <= MaxWrites
          /\ LET keys == ascending(batch)
                 kvs == [j \in 1 .. Len(keys) |-> <<keys[j], Writes + j>>]
                 new_peak == new_empty(PeakHeight)
             IN  in_flight' =
                    [active |-> TRUE, top_layer |-> i, base_layer |-> base_layer,
                     kvs |-> kvs, new_peak |-> new_peak,
                     tasks |-> [no_tasks(Pow2(PeakHeight) - 1) EXCEPT
                                  ![1] = PendingTask(root_builder(
                                            layers[i], base_layer, kvs,
                                            new_peak))]]
    /\ UNCHANGED <<layers, outcome, as_written, held_tree, phase, listener>>

\* A pending builder runs: it makes its two children, or it ends the recursion,
\* seals (a builder at a foot of the peak writes its slot) and returns.
RunBuilder ==
    /\ in_flight.active
    /\ \E p \in 1 .. Len(in_flight.tasks) :
          /\ in_flight.tasks[p].status = "pending"
          /\ Bind(run_builder(in_flight.tasks[p].builder), LAMBDA ran :
                CASE IsPanic(ran) ->
                        /\ in_flight' = NoBuild
                        /\ layers' = layers
                        /\ outcome' = [top_layer |-> in_flight.top_layer,
                                       base_layer |-> in_flight.base_layer,
                                       kvs |-> in_flight.kvs, result |-> ran.msg]
                  [] ran.kind = "Forked" ->
                        /\ in_flight' =
                              [in_flight EXCEPT
                                 !.tasks[p] = WaitingTask(ran.pending_build),
                                 !.tasks[2 * p] = PendingTask(ran.left),
                                 !.tasks[2 * p + 1] = PendingTask(ran.right)]
                        /\ UNCHANGED <<layers, outcome>>
                  [] OTHER ->
                        LET top == layers[in_flight.top_layer]
                            after == peaks_after(top.peak, in_flight.new_peak,
                                                 ran.built.writes)
                            joined == join_children(
                                        [in_flight.tasks EXCEPT
                                            ![p] = ReturnedTask(ran.built)],
                                        p, top.layer + 1)
                        IN  IF IsPanic(joined)
                            THEN /\ in_flight' = NoBuild
                                 /\ layers' = layers
                                 /\ outcome' =
                                       [top_layer |-> in_flight.top_layer,
                                        base_layer |-> in_flight.base_layer,
                                        kvs |-> in_flight.kvs,
                                        result |-> joined.msg]
                            ELSE /\ in_flight' =
                                       [in_flight EXCEPT
                                          !.new_peak = after.new_peak,
                                          !.tasks = joined.tasks]
                                 /\ layers' =
                                       [layers EXCEPT
                                          ![in_flight.top_layer].peak =
                                              after.receiver]
                                 /\ UNCHANGED outcome)
    /\ UNCHANGED <<as_written, held_tree, phase, listener>>

\* new_layer_with_hasher from finalize() on: the builder of the root has
\* returned, and the new peak is spawned as the MapLayer of the call.
FinishBuild ==
    /\ in_flight.active
    /\ in_flight.tasks[1].status = "returned"
    /\ LET top == layers[in_flight.top_layer]
           built == finalize(in_flight.tasks[1].built)
       IN  /\ outcome' = [top_layer |-> in_flight.top_layer,
                          base_layer |-> in_flight.base_layer,
                          kvs |-> in_flight.kvs,
                          result |-> IF IsPanic(built) THEN built.msg ELSE "ok"]
           /\ layers' =
                 IF IsPanic(built) THEN layers
                 ELSE Append(layers,
                        spawn(top, in_flight.new_peak, in_flight.base_layer)
                        @@ [kvs |-> in_flight.kvs,
                            parent |-> in_flight.top_layer,
                            writes |-> [n \in 1 .. Len(built.writes) |->
                                           built.writes[n].slot],
                            created |-> built.created])
    /\ in_flight' = NoBuild
    /\ UNCHANGED <<as_written, held_tree, phase, listener>>

NextSteps == StartBuild \/ RunBuilder \/ FinishBuild

SpecSteps == InitSteps /\ [][NextSteps]_vars

(***************************************************************************)
(* What the calls so far have written, read off the batches alone.         *)
(***************************************************************************)
KeysOf(kvs) == {kvs[n][1] : n \in 1 .. Len(kvs)}

\* The value of the last pair of kvs with key k (k is a key of kvs).
LastValue(kvs, k) ==
    LET last == CHOOSE n \in 1 .. Len(kvs) :
                    /\ kvs[n][1] = k
                    /\ \A m \in n + 1 .. Len(kvs) : kvs[m][1] # k
    IN  kvs[last][2]

\* The last value written for k on the way from the empty map to layer i.
RECURSIVE Latest(_, _)
Latest(i, k) ==
    IF i = 0 THEN None
    ELSE IF k \in KeysOf(layers[i].kvs) THEN Some(LastValue(layers[i].kvs, k))
    ELSE Latest(layers[i].parent, k)

\* The Leaf and Internal nodes of the trie under a node, and of a layer.
RECURSIVE NodesUnder(_)
NodesUnder(node) ==
    CASE node.kind = "Empty" -> {}
      [] node.kind = "Leaf" -> {node}
      [] OTHER -> {node} \cup NodesUnder(node.left) \cup NodesUnder(node.right)

NodesOf(layer) ==
    UNION {NodesUnder(layer.peak.leaves[s]) : s \in 1 .. Len(layer.peak.leaves)}

Built == 2 .. Len(layers)    \* the layers that a new_layer call returned

C2_EmptyBatchIdempotence ==
    (outcome.result # "none" /\ outcome.kvs = <<>>) =>
        /\ outcome.result = "ok"
        /\ LET new == layers[Len(layers)]
               old == layers[outcome.top_layer]
           IN  /\ Len(layers) > 1
               /\ new.parent = outcome.top_layer
               /\ \A k \in Keys : read(new, k) = read(old, k)
               /\ new.peak.leaves = old.peak.leaves

C7_NoFatalFailure == outcome.result \in {"none", "ok"}

Matches(kvs, d, p) ==
    \E n \in 1 .. Len(kvs) : hash_one(kvs[n][1]) \div Pow2(HashBits - d) = p

\* new and old are the nodes of the two layers at the position of depth d and
\* hash prefix p.  At a position that matches no item the two are one node, and
\* so are the nodes at the positions under it; the others are looked at in turn.
RECURSIVE SameWhereUntouched(_, _, _, _, _)
SameWhereUntouched(new, old, kvs, d, p) ==
    IF ~ Matches(kvs, d, p) THEN new = old
    ELSE IF d = HashBits THEN TRUE
    ELSE Bind(children(new, d, 0), LAMBDA n :
         Bind(children(old, d, 0), LAMBDA o :
            /\ SameWhereUntouched(n.left, o.left, kvs, d + 1, 2 * p)
            /\ SameWhereUntouched(n.right, o.right, kvs, d + 1, 2 * p + 1)))

WrittenFor(i, k) ==
    LET RECURSIVE Up(_)
        Up(j) == IF j = 0 THEN {}
                 ELSE {layers[j].kvs[n][2] : n \in {m \in 1 .. Len(layers[j].kvs) :
                                                      layers[j].kvs[m][1] = k}}
                      \cup Up(layers[j].parent)
    IN  Up(i)

KeysIn(content) == DOMAIN Cells(content, 0)

RECURSIVE PathEnd(_, _, _)
PathEnd(node, depth, key_hash) ==
    IF node.kind = "Internal"
    THEN PathEnd(IF bit(key_hash, depth) THEN node.right ELSE node.left,
                 depth + 1, key_hash)
    ELSE [node |-> node, depth |-> depth]

PathEndIn(layer, key_hash) ==
    PathEnd(layer.peak.leaves[peak_index(layer.peak, key_hash)],
            layer.peak.height - 1, key_hash)

\* The first depth at which two different hashes differ.
FirstDifference(h1, h2) ==
    CHOOSE d \in 0 .. HashBits - 1 :
        /\ bit(h1, d) # bit(h2, d)
        /\ \A e \in 0 .. d - 1 : bit(h1, e) = bit(h2, e)

FirstFoot == Pow2(PeakHeight - 1)

\* The builder p has returned: it, or a builder above it that has sealed with
\* its children, is a returned task.
RECURSIVE HasReturned(_)
HasReturned(p) ==
    \/ in_flight.tasks[p].status = "returned"
    \/ p > 1 /\ HasReturned(p \div 2)

RECURSIVE TaskDepth(_)
TaskDepth(p) == IF p = 1 THEN 0 ELSE 1 + TaskDepth(p \div 2)

\* The hash bits 0 .. depth-1 of the builder p, read as a number.
TaskPath(p) == p - Pow2(TaskDepth(p))

RECURSIVE Routed(_, _)
Routed(self, path) ==
    /\ \A n \in 1 .. Len(self.items) :
          self.items[n].key_hash \div Pow2(HashBits - self.depth) = path
    /\ self.depth < HashBits =>
          \A m, n \in 1 .. Len(self.items) :
             (m < n /\ bit(self.items[m].key_hash, self.depth))
                => bit(self.items[n].key_hash, self.depth)
    /\ maybe_end_recursion(init_pending_build(self).self).kind = "Continue" =>
          Bind(branch(self), LAMBDA sub :
             /\ ~ IsPanic(sub)
             /\ partition_point(self.items, self.depth)
                   = Len(SelectSeq(self.items, LAMBDA item :
                                      ~ bit(item.key_hash, self.depth)))
             /\ sub.left.items \o sub.right.items = self.items
             /\ \A n \in 1 .. Len(sub.left.items) :
                   ~ bit(sub.left.items[n].key_hash, self.depth)
             /\ \A n \in 1 .. Len(sub.right.items) :
                   bit(sub.right.items[n].key_hash, self.depth)
             /\ sub.left.depth = self.depth + 1
             /\ sub.right.depth = self.depth + 1
             /\ Routed(sub.left, 2 * path)
             /\ Routed(sub.right, 2 * path + 1))

RECURSIVE PlacedBelowPeak(_)
PlacedBelowPeak(self) ==
    /\ ~ self.position_in_new_peak.some
    /\ init_pending_build(self).pending_build.kind = "BelowPeak"
    /\ Bind(build(self), LAMBDA built :
          /\ built.kind = "BelowPeak"
          /\ built.writes = <<>>)
    /\ maybe_end_recursion(init_pending_build(self).self).kind = "Continue" =>
          Bind(branch(self), LAMBDA sub :
             /\ ~ IsPanic(sub)
             /\ PlacedBelowPeak(sub.left)
             /\ PlacedBelowPeak(sub.right))

\* The builder `self` at the foot of the peak over the slot `slot` writes the
\* slot once and returns InOrAtFootOfPeak, its children returning BelowPeak.
PlacedAtFoot(self, slot) ==
    /\ init_pending_build(self).pending_build = [kind |-> "FootOfPeak",
                                                 slot |-> slot]
    /\ Bind(build(self), LAMBDA built :
          /\ built.kind = "InOrAtFootOfPeak"
          /\ Len(built.writes) = 1
          /\ built.writes[1].slot = slot)
    /\ maybe_end_recursion(init_pending_build(self).self).kind = "Continue" =>
          Bind(branch(self), LAMBDA sub :
             /\ ~ IsPanic(sub)
             /\ PlacedBelowPeak(sub.left)
             /\ PlacedBelowPeak(sub.right)
             /\ build(self).writes[1].node
                   = make_parent(build(sub.left).node, build(sub.right).node,
                                 self.map.top_layer + 1).node)

\* The nodes of the layer numbered `layer` under the slots `leaves` of a peak.
NodesMadeIn(leaves, layer) ==
    {node \in UNION {NodesUnder(leaves[s]) : s \in 1 .. Len(leaves)} :
        node.layer = layer}

NodesAround ==
    {Empty}
    \cup UNION {NodesOf(layers[i]) : i \in 1 .. Len(layers)}
    \cup (IF in_flight.active THEN NodesOf([peak |-> in_flight.new_peak])
          ELSE {})

RECURSIVE MergesUnder(_)
MergesUnder(self) ==
    IF maybe_end_recursion(init_pending_build(self).self).kind # "Continue"
    THEN {}
    ELSE Bind(branch(self), LAMBDA sub :
            IF IsPanic(sub) THEN {}
            ELSE {<<build(sub.left).node, build(sub.right).node>>}
                 \cup MergesUnder(sub.left) \cup MergesUnder(sub.right))

RECURSIVE EndsWithinHashBits(_)
EndsWithinHashBits(self) ==
    Bind(maybe_end_recursion(init_pending_build(self).self), LAMBDA step :
        /\ ~ IsPanic(step)
        /\ self.depth <= HashBits
        /\ step.kind = "Continue" =>
              /\ self.depth < HashBits
              /\ Bind(branch(self), LAMBDA sub :
                    /\ ~ IsPanic(sub)
                    /\ EndsWithinHashBits(sub.left)
                    /\ EndsWithinHashBits(sub.right)))

\* The depth of the deepest builder that the builder `self` comes to.
RECURSIVE Deepest(_)
Deepest(self) ==
    IF maybe_end_recursion(init_pending_build(self).self).kind # "Continue"
    THEN self.depth
    ELSE Bind(branch(self), LAMBDA sub :
            Bind(Deepest(sub.left), LAMBDA l :
            Bind(Deepest(sub.right), LAMBDA r : IF l > r THEN l ELSE r)))

written_node == Leaf(0, UniqueLatest(1, 1), 1)

InitFpt ==
    /\ layers = <<>>
    /\ outcome = [result |-> "none"]
    /\ as_written = TRUE
    /\ in_flight = NoBuild
    /\ held_tree = NoTree
    /\ phase = NoPhase
    /\ listener = NoListener

\* FlattenPerfectTree::new_empty(height)
NewEmpty ==
    \E height \in 0 .. PeakHeight :
       held_tree' = [held |-> TRUE, fpt |-> new_empty(height),
                     ref |-> None, ref_mut |-> None,
                     last |-> [op |-> "new_empty", height |-> height]]

\* FlattenPerfectTree::root
TakeRoot ==
    /\ held_tree.held
    /\ held_tree' = [held_tree EXCEPT
                        !.ref = Some(root(held_tree.fpt)),
                        !.ref_mut = None,
                        !.last = [op |-> "root"]]

\* FlattenPerfectTree::root_mut: the exclusive borrow ends every other view.
TakeRootMut ==
    /\ held_tree.held
    /\ held_tree' = [held_tree EXCEPT
                        !.ref = None,
                        !.ref_mut = Some(root_mut(held_tree.fpt)),
                        !.last = [op |-> "root_mut"]]

\* FptRef::expect_sub_trees on the read view, which it consumes; the caller
\* goes on with one of the two views it returns.
ExpectSubTrees ==
    /\ held_tree.held
    /\ held_tree.ref.some
    /\ LET sub == expect_sub_trees(held_tree.ref.v)
           last == [op |-> "expect_sub_trees", of |-> held_tree.ref.v,
                    returned |-> sub]
       IN  IF IsPanic(sub)
           THEN held_tree' = [held_tree EXCEPT !.ref = None, !.last = last]
           ELSE \E side \in {"left", "right"} :
                   held_tree' =
                      [held_tree EXCEPT
                         !.ref = Some(IF side = "left" THEN sub.left
                                      ELSE sub.right),
                         !.last = last]

\* FptRefMut::try_into_sub_trees on the mutable view, which it consumes; the
\* caller goes on with one of the two views it returns, if there are any.
TryIntoSubTrees ==
    /\ held_tree.held
    /\ held_tree.ref_mut.some
    /\ LET sub == try_into_sub_trees(held_tree.ref_mut.v)
           last == [op |-> "try_into_sub_trees", of |-> held_tree.ref_mut.v,
                    returned |-> sub]
       IN  \E side \in {"left", "right"} :
              held_tree' =
                 [held_tree EXCEPT
                    !.ref_mut = IF side = "left" THEN sub.left ELSE sub.right,
                    !.last = last]

\* FptRefMut::expect_into_single_node_ref and a write through the reference.
WriteSlot ==
    /\ held_tree.held
    /\ held_tree.ref_mut.some
    /\ LET slot == expect_into_single_node_ref(held_tree.ref_mut.v)
           last == [op |-> "expect_into_single_node_ref",
                    of |-> held_tree.ref_mut.v, returned |-> slot]
       IN  IF ~ is_single_node_mut(held_tree.ref_mut.v)
           THEN held_tree' = [held_tree EXCEPT !.ref_mut = None, !.last = last]
           ELSE held_tree' =
                   [held_tree EXCEPT
                      !.fpt.leaves[slot] = written_node,
                      !.ref_mut = None,
                      !.last = last]

NextFpt ==
    /\ \/ NewEmpty
       \/ TakeRoot
       \/ TakeRootMut
       \/ ExpectSubTrees
       \/ TryIntoSubTrees
       \/ WriteSlot
    /\ UNCHANGED <<layers, outcome, as_written, in_flight, phase, listener>>

SpecFpt == InitFpt /\ [][NextFpt]_vars

(***************************************************************************)
(* C25  new_empty(h) returns a tree of exactly 2^(h-1) slots for h >= 1    *)
(* and of no slot for h = 0; every slot is Empty, and the height recorded  *)
(* in the tree is h.                                                       *)
(***************************************************************************)
C25_NewEmptyShape ==
    (held_tree.held /\ held_tree.last.op = "new_empty") =>
        LET h == held_tree.last.height
            fpt == held_tree.fpt
        IN  /\ Len(fpt.leaves) = IF h = 0 THEN 0 ELSE 2 ^ (h - 1)
            /\ \A i \in 1 .. Len(fpt.leaves) : fpt.leaves[i] = Empty
            /\ fpt.height = h

\* new_empty has returned a tree of the greatest height of the bounds.
C25_Witness ==
    /\ held_tree.held
    /\ held_tree.last.op = "new_empty"
    /\ held_tree.last.height = PeakHeight
    /\ Len(held_tree.fpt.leaves) = 2 ^ (PeakHeight - 1)

(***************************************************************************)
(* C26  Peak view splitting.  Splitting a view of n > 1 slots yields two   *)
(* views of n/2 slots each, the left one the first half and the right one  *)
(* the second half of the view, disjoint and together the whole view:      *)
(* expect_sub_trees on the read view, try_into_sub_trees on the mutable    *)
(* view.  A mutable view of one slot yields (None, None), and a read view  *)
(* of one slot cannot be split.                                            *)
(***************************************************************************)
\* The part of the mutable view: FptRefMut::try_into_sub_trees.
C26_MutableViewSplitting ==
    (held_tree.held /\ held_tree.last.op = "try_into_sub_trees") =>
        LET of == held_tree.last.of
            sub == held_tree.last.returned
            n == of.len
        IN  /\ n > 1 =>
                 /\ sub.left = Some([first |-> of.first, len |-> n \div 2])
                 /\ sub.right = Some([first |-> of.first + n \div 2,
                                      len |-> n \div 2])
                 /\ sub.left.v.len + sub.right.v.len = n
            /\ n = 1 => (sub.left = None /\ sub.right = None)

\* The part of the read view: FptRef::expect_sub_trees.
C26_ReadViewSplitting ==
    (held_tree.held /\ held_tree.last.op = "expect_sub_trees") =>
        LET of == held_tree.last.of
            sub == held_tree.last.returned
            n == Len(of)
        IN  /\ n > 1 =>
                 /\ ~ IsPanic(sub)
                 /\ Len(sub.left) = n \div 2
                 /\ Len(sub.right) = n \div 2
                 /\ sub.left = SubSeq(of, 1, n \div 2)
                 /\ sub.right = SubSeq(of, n \div 2 + 1, n)
                 /\ sub.left \o sub.right = of
            /\ n = 1 => IsPanic(sub)

C26_PeakViewSplitting == C26_MutableViewSplitting /\ C26_ReadViewSplitting

(***************************************************************************)
(* SpecFork: layers built side by side and one after the other.  The one   *)
(* layer held at first is the layer that a first call has built by writing *)
(* the keys 1 .. m to the empty map (the empty map itself if m = 0); then  *)
(* callers build from any layer held, so that a layer comes to have        *)
(* several children (forks) and chains of layers grow from it.  A batch is *)
(* any sequence of keys, in any order and with repetitions.                *)
(***************************************************************************)
InitFork ==
    /\ as_written = FALSE
    /\ outcome = [top_layer |-> 0, base_layer |-> 0, kvs |-> <<>>,
                  result |-> "none"]
    /\ in_flight = NoBuild
    /\ held_tree = NoTree
    /\ phase = NoPhase
    /\ listener = NoListener
    /\ \E m \in 0 .. MaxBatch :
          /\ m < MaxWrites
          /\ m <= Cardinality(Keys)
          /\ LET kvs == [j \in 1 .. m |-> <<j, j>>]
                 got == new_layer_with_hasher(InitialLayer, 0, kvs)
             IN  layers = IF m = 0 THEN <<InitialLayer>>
                          ELSE <<got.layer @@ [kvs |-> kvs, parent |-> 0,
                                               writes |-> got.writes,
                                               created |-> got.created]>>

\* new_layer(kvs) on the LayeredMap of the held layer i, as NewLayer.
ForkLayer ==
    /\ Len(layers) <= MaxBuilds
    /\ \E i \in 1 .. Len(layers) :
       \E n \in 0 .. MaxBatch :
          /\ Writes + n <= MaxWrites
          /\ \E keys \in [1 .. n -> Keys] :
                LET kvs == [j \in 1 .. n |-> <<keys[j], Writes + j>>]
                    base_layer == layers[i].base_layer
                IN  Bind(new_layer_with_hasher(layers[i], base_layer, kvs),
                         LAMBDA got :
                    /\ outcome' = [top_layer |-> i, base_layer |-> base_layer,
                                   kvs |-> kvs,
                                   result |-> IF IsPanic(got) THEN got.msg
                                              ELSE "ok"]
                    /\ layers' = IF IsPanic(got) THEN layers
                                 ELSE Append([layers EXCEPT
                                                ![i].peak = got.receiver],
                                        got.layer @@ [kvs |-> kvs, parent |-> i,
                                                      writes |-> got.writes,
                                                      created |-> got.created]))
    /\ UNCHANGED <<as_written, in_flight, held_tree, phase, listener>>

NextFork == ForkLayer

SpecFork == InitFork /\ [][NextFork]_vars

(***************************************************************************)
(* C27  The order of a batch does not matter when no key is in it twice:   *)
(* two batches that are permutations of each other, applied to the same    *)
(* layer, give layers that read alike for every key and whose leaves have  *)
(* the same contents.  It is stated of the layer built last and of every   *)
(* permutation of its batch, built from the same parent: the two peaks are *)
(* equal node by node, and so are the reads.                               *)
(***************************************************************************)
Orders(n) ==
    {pi \in [1 .. n -> 1 .. n] : \A a, b \in 1 .. n : pi[a] = pi[b] => a = b}

NoKeyTwice(kvs) ==
    \A a, b \in 1 .. Len(kvs) : kvs[a][1] = kvs[b][1] => a = b

\* The layer built last by a call of SpecFork, and the layer it was built from.
LastBuilt == layers[Len(layers)]
ParentOfLastBuilt == layers[LastBuilt.parent]

GrandparentOfLastBuilt ==
    IF ParentOfLastBuilt.parent = 0 THEN InitialLayer
    ELSE layers[ParentOfLastBuilt.parent]

ReadsOwnBatchOverParent(x) ==
    \A key \in Keys \cup {NeverWritten} :
       read(layers[x], key) =
          IF key \in KeysOf(layers[x].kvs)
          THEN Some(LastValue(layers[x].kvs, key))
          ELSE read(layers[layers[x].parent], key)

\* The held layer x returns no value that the batch of the held layer y wrote
\* (every pair written in a behaviour has a value of its own).
ShowsNoWriteOf(x, y) ==
    \A key \in Keys \cup {NeverWritten} :
    \A j \in 1 .. Len(layers[y].kvs) :
       read(layers[x], key) # Some(layers[y].kvs[j][2])

Forks ==
    {pair \in (2 .. Len(layers)) \X (2 .. Len(layers)) :
        /\ pair[1] < pair[2]
        /\ layers[pair[1]].parent = layers[pair[2]].parent}

BlockIds == 1 .. 3

\* HashValue::zero()
HashValue_zero == 0

\* The requests: every sequence of at most MaxOrdered blocks.
Requests ==
    UNION {[1 .. n -> BlockIds] : n \in 0 .. MaxOrdered}

\* DashMap::entry(id): Occupied or Vacant.
entry(execution_futures, id) ==
    IF execution_futures[id] = "vacant" THEN "Vacant" ELSE "Occupied"

\* ExecutionSchedulePhase::new: nothing is in process; the map handed over
\* holds what was inserted before.
InitSchedule ==
    /\ layers = <<>>
    /\ outcome = [result |-> "none"]
    /\ as_written = TRUE
    /\ in_flight = NoBuild
    /\ held_tree = NoTree
    /\ listener = NoListener
    /\ phase = [running |-> TRUE,
                execution_futures |-> [id \in BlockIds |-> "vacant"],
                pc |-> "idle",
                ordered_blocks |-> <<>>,
                block_id |-> HashValue_zero,
                next |-> 1,
                visited |-> <<>>,
                calls |-> <<>>,
                computes |-> [id \in BlockIds |-> 0],
                response |-> None]

\* Another holder of execution_futures inserts the future of a block that it
\* has executed ahead of the order.  The entry that process holds while it
\* awaits schedule_compute is locked.
PreExecute ==
    \E id \in BlockIds :
       /\ entry(phase.execution_futures, id) = "Vacant"
       /\ ~ (phase.pc = "schedule_compute"
               /\ phase.ordered_blocks[phase.next] = id)
       /\ phase' = [phase EXCEPT !.execution_futures[id] = "pre_executed"]

\* A Receive that goes into the scheduling loop whatever the request.
Receive_without_early_return ==
    /\ phase.pc = "idle"
    /\ \E ordered_blocks \in Requests :
          phase' = [phase EXCEPT
                      !.pc = "loop",
                      !.ordered_blocks = ordered_blocks,
                      !.block_id = IF ordered_blocks = <<>> THEN HashValue_zero
                                   ELSE ordered_blocks[Len(ordered_blocks)],
                      !.next = 1,
                      !.visited = <<>>,
                      !.calls = <<>>,
                      !.response = None]

\* process, up to the scheduling loop: the request is taken apart; without a
\* last block the call returns at once.
Receive ==
    /\ phase.pc = "idle"
    /\ \E ordered_blocks \in Requests :
          IF ordered_blocks = <<>>
          THEN phase' = [phase EXCEPT
                           !.ordered_blocks = ordered_blocks,
                           !.block_id = HashValue_zero,
                           !.next = 1,
                           !.visited = <<>>,
                           !.calls = <<>>,
                           !.response =
                               Some([block_id |-> HashValue_zero,
                                     fut |-> "Err(EmptyBlocks)"])]
          ELSE phase' = [phase EXCEPT
                           !.pc = "loop",
                           !.ordered_blocks = ordered_blocks,
                           !.block_id = ordered_blocks[Len(ordered_blocks)],
                           !.next = 1,
                           !.visited = <<>>,
                           !.calls = <<>>,
                           !.response = None]

\* A ScheduleBlock that calls schedule_compute whatever the entry.
ScheduleBlock_unconditional ==
    /\ phase.pc = "loop"
    /\ phase.next <= Len(phase.ordered_blocks)
    /\ LET id == phase.ordered_blocks[phase.next]
           found == phase.execution_futures[id]
       IN  phase' = [phase EXCEPT
                       !.pc = "schedule_compute",
                       !.visited = Append(@, [block |-> id, found |-> found,
                                              called |-> TRUE]),
                       !.calls = Append(@, id),
                       !.computes[id] = @ + 1]

\* One turn of the scheduling loop, up to the call: an Occupied entry is
\* passed by, for a Vacant one schedule_compute is called.
ScheduleBlock ==
    /\ phase.pc = "loop"
    /\ phase.next <= Len(phase.ordered_blocks)
    /\ LET id == phase.ordered_blocks[phase.next]
           found == phase.execution_futures[id]
       IN  IF entry(phase.execution_futures, id) = "Occupied"
           THEN phase' = [phase EXCEPT
                            !.next = @ + 1,
                            !.visited = Append(@, [block |-> id,
                                                   found |-> found,
                                                   called |-> FALSE])]
           ELSE phase' = [phase EXCEPT
                            !.pc = "schedule_compute",
                            !.visited = Append(@, [block |-> id,
                                                   found |-> found,
                                                   called |-> TRUE]),
                            !.calls = Append(@, id),
                            !.computes[id] = @ + 1]

\* schedule_compute(..).await is over: the future goes into the entry held.
ScheduleComputeReturns ==
    /\ phase.pc = "schedule_compute"
    /\ LET id == phase.ordered_blocks[phase.next]
       IN  phase' = [phase EXCEPT
                       !.pc = "loop",
                       !.execution_futures[id] = "scheduled",
                       !.next = @ + 1]

\* process, after the loop: the task that waits for the results is spawned
\* and the ExecutionWaitRequest is returned.
SpawnAndReturn ==
    /\ phase.pc = "loop"
    /\ phase.next > Len(phase.ordered_blocks)
    /\ phase' = [phase EXCEPT
                   !.pc = "idle",
                   !.response = Some([block_id |-> phase.block_id,
                                      fut |-> "spawned"])]

NextSchedule ==
    /\ \/ PreExecute
       \/ Receive
       \/ ScheduleBlock
       \/ ScheduleComputeReturns
       \/ SpawnAndReturn
    /\ UNCHANGED <<layers, outcome, as_written, in_flight, held_tree, listener>>

SpecSchedule == InitSchedule /\ [][NextSchedule]_vars

(***************************************************************************)
(* C30  process schedules in order and at most once.  For a request that   *)
(* is not empty, schedule_compute is called for the blocks in the order of *)
(* ordered_blocks, each call being over before the next one and before     *)
(* process returns, and only for blocks that have no entry in              *)
(* execution_futures; a block that has one (pre-executed, or scheduled     *)
(* before) is not scheduled again; after the loop execution_futures holds  *)
(* an entry for every block of the request.                                *)
(***************************************************************************)
\* The blocks of the records of `visited` that were called, in order.
RECURSIVE CalledOf(_)
CalledOf(visited) ==
    IF visited = <<>> THEN <<>>
    ELSE LET rest == CalledOf(SubSeq(visited, 1, Len(visited) - 1))
             last == visited[Len(visited)]
         IN  IF last.called THEN Append(rest, last.block) ELSE rest

C30_ScheduleInOrderAtMostOnce ==
    (phase.running /\ phase.ordered_blocks # <<>>) =>
        LET v == phase.visited
            ob == phase.ordered_blocks
            futures == phase.execution_futures
        IN  \* the loop comes to the blocks in the order of ordered_blocks,
            \* and the calls are made in that order
            /\ Len(v) <= Len(ob)
            /\ \A j \in 1 .. Len(v) : v[j].block = ob[j]
            /\ phase.calls = CalledOf(v)
            \* a call is made for a block if and only if it has no entry
            /\ \A j \in 1 .. Len(v) : v[j].called <=> v[j].found = "vacant"
            \* no block is scheduled twice, in this request or ever, and a
            \* pre-executed block is never scheduled
            /\ \A i, j \in 1 .. Len(phase.calls) :
                  phase.calls[i] = phase.calls[j] => i = j
            /\ \A id \in BlockIds :
                  /\ phase.computes[id] <= 1
                  /\ futures[id] = "pre_executed" => phase.computes[id] = 0
            \* every call but the one awaited is over, its future in the map
            /\ \A j \in 1 .. Len(v) :
                  (v[j].called
                     /\ ~ (phase.pc = "schedule_compute" /\ j = Len(v)))
                  => futures[v[j].block] = "scheduled"
            \* after the loop: every call is over and every block has an entry
            /\ (phase.pc = "idle" \/ phase.next > Len(ob)) =>
                  /\ Len(v) = Len(ob)
                  /\ phase.pc # "schedule_compute"
                  /\ \A j \in 1 .. Len(ob) : futures[ob[j]] # "vacant"

\* process has returned for a request of MaxOrdered blocks: one of them was
\* found pre-executed, two were scheduled, the second after the first.
C30_Witness ==
    /\ phase.running
    /\ phase.pc = "idle"
    /\ phase.response = Some([block_id |-> phase.block_id, fut |-> "spawned"])
    /\ Len(phase.ordered_blocks) = MaxOrdered
    /\ Len(phase.calls) >= 2
    /\ \E j \in 1 .. Len(phase.visited) :
          phase.visited[j].found = "pre_executed"

(***************************************************************************)
(* SpecWait: the task that process spawns to wait for the compute results. *)
(* Here process is one step (Process): its scheduling loop, which          *)
(* SpecSchedule takes apart, leaves an entry for every block of the        *)
(* request, and a pre-execution that comes in during the loop leaves the   *)
(* map as one that came in before it.  The task is taken apart at its      *)
(* awaits.  The compute futures complete when the executor is done with    *)
(* them, each on its own, with a result or with an error.  One request is  *)
(* in flight at a time: the tasks of two requests share nothing but the    *)
(* map, which they only read.  phase is, next to the fields of             *)
(* SpecSchedule that process writes (pc is "idle" throughout),             *)
(*   compute_results   per block id, what the future under that id has     *)
(*                     resolved to: "pending", "Ok" or "Err"               *)
(*   task              the spawned task:                                   *)
(*       pc              "none" (none spawned), "loop", "await", "done"    *)
(*       ordered_blocks  the blocks moved into the task                    *)
(*       block_id        the id of the last block, captured by the task    *)
(*       next            the index of the block its loop comes to next     *)
(*       awaited         the id of the future it awaits                    *)
(*       results         what it has pushed: the future's id, its result   *)
(*       output          what the task returned                            *)
(*   lifetime_guard    "none", "held" (by process or by the task) or       *)
(*                     "dropped"                                           *)
(*   polled            whether the ExecutionWait phase has polled the      *)
(*                     future of the response                              *)
(***************************************************************************)
NoWaitTask ==
    [pc |-> "none", ordered_blocks |-> <<>>, block_id |-> HashValue_zero,
     next |-> 1, awaited |-> HashValue_zero, results |-> <<>>,
     output |-> None]

InitWait ==
    /\ layers = <<>>
    /\ outcome = [result |-> "none"]
    /\ as_written = TRUE
    /\ in_flight = NoBuild
    /\ held_tree = NoTree
    /\ listener = NoListener
    /\ phase = [running |-> TRUE,
                execution_futures |-> [id \in BlockIds |-> "vacant"],
                pc |-> "idle",
                ordered_blocks |-> <<>>,
                block_id |-> HashValue_zero,
                next |-> 1,
                response |-> None,
                compute_results |-> [id \in BlockIds |-> "pending"],
                task |-> NoWaitTask,
                lifetime_guard |-> "none",
                polled |-> FALSE]

\* The map after the scheduling loop of process: every block of the request
\* that had no entry has the future that schedule_compute returned.
scheduled_all(execution_futures, ordered_blocks) ==
    [id \in BlockIds |->
        IF /\ entry(execution_futures, id) = "Vacant"
           /\ \E j \in 1 .. Len(ordered_blocks) : ordered_blocks[j] = id
        THEN "scheduled"
        ELSE execution_futures[id]]

\* The id under which the task looks for the future of `block`.
looked_up(task, block) == task.block_id

\* process(req), the whole call: the empty request is answered at once and
\* its guard goes with the call; else the blocks are scheduled, the task is
\* spawned with the blocks and the guard, and the response is returned.
Process ==
    /\ phase.task.pc \in {"none", "done"}
    /\ \E ordered_blocks \in Requests :
          IF ordered_blocks = <<>>
          THEN phase' = [phase EXCEPT
                           !.ordered_blocks = ordered_blocks,
                           !.block_id = HashValue_zero,
                           !.response =
                               Some([block_id |-> HashValue_zero,
                                     fut |-> "Err(EmptyBlocks)"]),
                           !.task = NoWaitTask,
                           !.lifetime_guard = "dropped",
                           !.polled = FALSE]
          ELSE LET block_id == ordered_blocks[Len(ordered_blocks)]
               IN  phase' = [phase EXCEPT
                               !.ordered_blocks = ordered_blocks,
                               !.block_id = block_id,
                               !.execution_futures =
                                   scheduled_all(@, ordered_blocks),
                               !.response = Some([block_id |-> block_id,
                                                  fut |-> "spawned"]),
                               !.task = [NoWaitTask EXCEPT
                                           !.pc = "loop",
                                           !.ordered_blocks = ordered_blocks,
                                           !.block_id = block_id],
                               !.lifetime_guard = "held",
                               !.polled = FALSE]

\* The executor is done with a block: its future resolves.
ComputeCompletes ==
    \E id \in BlockIds :
    \E res \in {"Ok", "Err"} :
       /\ entry(phase.execution_futures, id) = "Occupied"
       /\ phase.compute_results[id] = "pending"
       /\ phase' = [phase EXCEPT !.compute_results[id] = res]

\* One turn of the loop of the task, up to the await: the entry is looked up;
\* without one the task returns an error, and the guard goes with the task.
TaskLookup ==
    /\ phase.task.pc = "loop"
    /\ phase.task.next <= Len(phase.task.ordered_blocks)
    /\ LET block == phase.task.ordered_blocks[phase.task.next]
           id == looked_up(phase.task, block)
       IN  IF entry(phase.execution_futures, id) = "Occupied"
           THEN phase' = [phase EXCEPT !.task.pc = "await",
                                       !.task.awaited = id]
           ELSE phase' = [phase EXCEPT
                            !.task.pc = "done",
                            !.task.output =
                                Some([kind |-> "Err",
                                      msg |-> "Failed to find compute result"]),
                            !.lifetime_guard = "dropped"]

\* An await that is driven by whoever polls the future of the response: the
\* waiting done in the returned future, not in a spawned task.
TaskAwaitReturns_when_polled ==
    /\ phase.polled
    /\ phase.task.pc = "await"
    /\ phase.compute_results[phase.task.awaited] # "pending"
    /\ phase' = [phase EXCEPT
                   !.task.pc = "loop",
                   !.task.next = @ + 1,
                   !.task.results =
                       Append(@, [of |-> phase.task.awaited,
                                  res |-> phase.compute_results[
                                             phase.task.awaited]])]

\* fut.await is over: the result is pushed.
TaskAwaitReturns ==
    /\ phase.task.pc = "await"
    /\ phase.compute_results[phase.task.awaited] # "pending"
    /\ phase' = [phase EXCEPT
                   !.task.pc = "loop",
                   !.task.next = @ + 1,
                   !.task.results =
                       Append(@, [of |-> phase.task.awaited,
                                  res |-> phase.compute_results[
                                             phase.task.awaited]])]

\* The blocks zipped with the results: the executed blocks, or the first error.
zip_eq(ordered_blocks, results) ==
    IF \E j \in 1 .. Len(results) : results[j].res = "Err"
    THEN [kind |-> "Err", msg |-> "compute result"]
    ELSE [kind |-> "Ok",
          blocks |-> [j \in 1 .. Len(ordered_blocks) |->
                         [block |-> ordered_blocks[j],
                          result_of |-> results[j].of]]]

\* The task after its loop: the results are set on the blocks; on success
\* the guard is dropped before the task returns, on an error it goes with
\* the task.
TaskFinish ==
    /\ phase.task.pc = "loop"
    /\ phase.task.next > Len(phase.task.ordered_blocks)
    /\ phase' = [phase EXCEPT
                   !.task.pc = "done",
                   !.task.output =
                       Some(zip_eq(phase.task.ordered_blocks,
                                   phase.task.results)),
                   !.lifetime_guard = "dropped"]

\* The ExecutionWait phase polls the future of the response.
PollResponse ==
    /\ phase.response # None
    /\ ~ phase.polled
    /\ phase' = [phase EXCEPT !.polled = TRUE]

NextWait ==
    /\ \/ PreExecute
       \/ Process
       \/ ComputeCompletes
       \/ TaskLookup
       \/ TaskAwaitReturns
       \/ TaskFinish
       \/ PollResponse
    /\ UNCHANGED <<layers, outcome, as_written, in_flight, held_tree, listener>>

SpecWait == InitWait /\ [][NextWait]_vars

\* tokio::task::spawn: the runtime runs the task whether or not anyone polls
\* its JoinHandle, so every step of the task that stays possible is taken.
\* Nothing is assumed of the requests, of the executor, of the pre-execution
\* or of the ExecutionWait phase.
SpecWaitLive ==
    /\ SpecWait
    /\ WF_phase(TaskLookup)
    /\ WF_phase(TaskAwaitReturns)
    /\ WF_phase(TaskFinish)

(***************************************************************************)
(* C31  The future that process returns waits for the compute results in   *)
(* order and, on success, yields one executed block for every block of     *)
(* ordered_blocks, in the same order, each block with the compute result   *)
(* of the future that is stored under the id of that very block.           *)
(***************************************************************************)
\* The part that holds: the task pushes one result for each block it has come
\* to, and on success it yields the blocks of the request in their order.
C31_OneResultPerBlockInOrder ==
    phase.task.pc # "none" =>
        LET task == phase.task
        IN  /\ Len(task.results) = task.next - 1
            /\ (task.output # None /\ task.output.v.kind = "Ok") =>
                  /\ Len(task.output.v.blocks) = Len(phase.ordered_blocks)
                  /\ \A j \in 1 .. Len(phase.ordered_blocks) :
                        task.output.v.blocks[j].block = phase.ordered_blocks[j]

\* Every result that the task has pushed, and every result it yields, is the
\* result of the future under the id of the block it is paired with.
C31_OwnResult ==
    phase.task.pc # "none" =>
        LET task == phase.task
        IN  /\ \A j \in 1 .. Len(task.results) :
                  task.results[j].of = task.ordered_blocks[j]
            /\ (task.output # None /\ task.output.v.kind = "Ok") =>
                  \A j \in 1 .. Len(task.output.v.blocks) :
                     task.output.v.blocks[j].result_of
                        = task.output.v.blocks[j].block

C31_ResultsInOrderOfOwnFutures ==
    C31_OneResultPerBlockInOrder /\ C31_OwnResult

(***************************************************************************)
(* C32  The lifetime_guard of a request is dropped only after every        *)
(* compute future of the blocks of the request has completed, on the       *)
(* success path and on every error path of the spawned task, so that the   *)
(* executor is not reset while a computation of the request is pending.    *)
(***************************************************************************)
\* The part that holds: the guard is held until the task is over, and by
\* then the future of the last block of the request has completed.
C32_GuardHeldUntilTaskOver ==
    phase.ordered_blocks # <<>> =>
        /\ phase.lifetime_guard = "dropped" <=> phase.task.pc = "done"
        /\ phase.lifetime_guard = "dropped" =>
              phase.compute_results[phase.block_id] # "pending"

C32_GuardOutlivesComputations ==
    (phase.ordered_blocks # <<>> /\ phase.lifetime_guard = "dropped") =>
        \A j \in 1 .. Len(phase.ordered_blocks) :
           phase.compute_results[phase.ordered_blocks[j]] # "pending"

(***************************************************************************)
(* C33  The lifetime_guard is released in the end even if the future of    *)
(* the response is never polled: the waiting is done in a spawned task, so *)
(* once all compute futures of the request have completed, the guard is    *)
(* dropped without any step of the ExecutionWait phase.                    *)
(***************************************************************************)
AllComputeFuturesComplete ==
    \A j \in 1 .. Len(phase.ordered_blocks) :
       phase.compute_results[phase.ordered_blocks[j]] # "pending"

C33_GuardReleasedWithoutPoll ==
    (phase.lifetime_guard = "held" /\ AllComputeFuturesComplete)
        ~> (phase.lifetime_guard = "dropped")

\* The guard of a request of two blocks at least has been dropped by the task
\* and nobody has polled the future of the response.
C33_Witness ==
    /\ Len(phase.ordered_blocks) >= 2
    /\ phase.task.pc = "done"
    /\ phase.lifetime_guard = "dropped"
    /\ ~ phase.polled

(***************************************************************************)
(* C34  A request without ordered blocks is answered with the block_id     *)
(* HashValue::zero() and a future that resolves to Err(EmptyBlocks);       *)
(* schedule_compute is not called and execution_futures is left as it is.  *)
(* It is stated of every step in which an empty request comes in (the      *)
(* request in process becomes the empty one, or the response changes while *)
(* it is the empty one).                                                   *)
(***************************************************************************)
EmptyRequestComesIn ==
    /\ phase.pc = "idle"
    /\ phase'.ordered_blocks = <<>>
    /\ \/ phase.ordered_blocks # <<>>
       \/ phase'.response # phase.response
       \/ phase'.pc # phase.pc

C34_EmptyRequest ==
    [][EmptyRequestComesIn =>
          /\ phase'.response = Some([block_id |-> HashValue_zero,
                                     fut |-> "Err(EmptyBlocks)"])
          /\ phase'.pc = "idle"
          /\ phase'.calls = <<>>
          /\ phase'.computes = phase.computes
          /\ phase'.execution_futures = phase.execution_futures]_vars

\* An empty request has been answered by a phase whose map holds a future
\* that process scheduled for an earlier request and a pre-executed one.
C34_Witness ==
    /\ phase.running
    /\ phase.pc = "idle"
    /\ phase.ordered_blocks = <<>>
    /\ phase.response = Some([block_id |-> HashValue_zero,
                              fut |-> "Err(EmptyBlocks)"])
    /\ \E a, b \in BlockIds :
          /\ phase.execution_futures[a] = "scheduled"
          /\ phase.execution_futures[b] = "pre_executed"

(***************************************************************************)
(* SpecListen: the PeerListener of the network builder                     *)
(* (network/builder/src/peer_listener.rs).  listener_thread takes one      *)
(* inbound connection after the other from the listener stream, awaits its *)
(* upgrade (the handshake, which yields the peer id and the role of the    *)
(* remote), asks check_new_inbound_connection, and either starts a peer or *)
(* closes the socket.  peer::start_peer and PeersAndMetadata are not in    *)
(* the source at hand: start_peer is taken to have recorded the connection *)
(* as the connected one of its peer when it returns.  Peers disconnect and *)
(* the node dials peers itself at any moment.  The build is a debug build  *)
(* or a release build: debug_assert! stops the thread in the former only.  *)
(* listener is                                                             *)
(*   debug_assertions         whether debug_assert! is compiled in         *)
(*   max_inbound_connections  of the NetworkConfig                         *)
(*   pc        "next" (at sockets.next()), "upgrade" (at conn_fut.await)   *)
(*             or "exited"                                                 *)
(*   exit      why the thread is over: "none", "stream_err", "stream_end"  *)
(*             or "panic"                                                  *)
(*   peers     per peer id the connection metadata, or NotConnected        *)
(*   last      the last connection dealt with: how it ended, the peer id   *)
(*             and the role of the handshake, what                         *)
(*             check_new_inbound_connection saw, what became of the socket *)
(***************************************************************************)
PeerIds == 0 .. 3

\* NetworkContext::peer_id(): the peer id of this node.
network_context_peer_id == 0

PeerRoles == {"Unknown", "Validator"}

NotConnected == [connected |-> FALSE]
ConnectedPeer(origin, role) ==
    [connected |-> TRUE, origin |-> origin, role |-> role]

\* The peers of get_all_peers_and_metadata() that are connected.
connected_peers(peers) == {peer_id \in PeerIds : peers[peer_id].connected}

\* The count of the loop of check_new_inbound_connection.
unknown_inbound_conns(peers) ==
    Cardinality({peer_id \in connected_peers(peers) :
                    /\ peers[peer_id].origin = "Inbound"
                    /\ peers[peer_id].role = "Unknown"})

\* A check_new_inbound_connection that compares the count without the new
\* connection with the limit.
check_new_inbound_connection_off_by_one(self, conn) ==
    IF conn.role # "Unknown" THEN [kind |-> "Ok", ok |-> TRUE]
    ELSE IF conn.remote_peer_id = network_context_peer_id
    THEN IF self.debug_assertions
         THEN Panic("Self dials shouldn't happen")
         ELSE [kind |-> "Ok", ok |-> FALSE]
    ELSE LET already_connected ==
                conn.remote_peer_id \in connected_peers(self.peers)
         IN  IF /\ ~ already_connected
                /\ unknown_inbound_conns(self.peers)
                      > self.max_inbound_connections
             THEN [kind |-> "Ok", ok |-> FALSE]
             ELSE [kind |-> "Ok", ok |-> ~ already_connected]

\* A check_new_inbound_connection that keeps the new connection of a peer
\* that is connected already.
check_new_inbound_connection_keeping_new(self, conn) ==
    IF conn.role # "Unknown" THEN [kind |-> "Ok", ok |-> TRUE]
    ELSE IF conn.remote_peer_id = network_context_peer_id
    THEN IF self.debug_assertions
         THEN Panic("Self dials shouldn't happen")
         ELSE [kind |-> "Ok", ok |-> FALSE]
    ELSE LET already_connected ==
                conn.remote_peer_id \in connected_peers(self.peers)
         IN  IF /\ ~ already_connected
                /\ unknown_inbound_conns(self.peers) + 1
                      > self.max_inbound_connections
             THEN [kind |-> "Ok", ok |-> FALSE]
             ELSE [kind |-> "Ok", ok |-> TRUE]

\* PeerListener::check_new_inbound_connection: is the connection okay?
check_new_inbound_connection(self, conn) ==
    IF conn.role # "Unknown" THEN [kind |-> "Ok", ok |-> TRUE]
    ELSE IF conn.remote_peer_id = network_context_peer_id
    THEN IF self.debug_assertions
         THEN Panic("Self dials shouldn't happen")
         ELSE [kind |-> "Ok", ok |-> FALSE]
    ELSE LET already_connected ==
                conn.remote_peer_id \in connected_peers(self.peers)
         IN  IF /\ ~ already_connected
                /\ unknown_inbound_conns(self.peers) + 1
                      > self.max_inbound_connections
             THEN [kind |-> "Ok", ok |-> FALSE]
             ELSE IF already_connected
             THEN [kind |-> "Ok", ok |-> FALSE]
             ELSE [kind |-> "Ok", ok |-> TRUE]

\* PeerListener::new and listen: the thread is spawned, nobody is connected.
InitListen ==
    /\ layers = <<>>
    /\ outcome = [result |-> "none"]
    /\ as_written = TRUE
    /\ in_flight = NoBuild
    /\ held_tree = NoTree
    /\ phase = NoPhase
    /\ \E debug_assertions \in BOOLEAN :
       \E max_inbound_connections \in 0 .. MaxInbound :
          listener = [listening |-> TRUE,
                      debug_assertions |-> debug_assertions,
                      max_inbound_connections |-> max_inbound_connections,
                      pc |-> "next",
                      exit |-> "none",
                      peers |-> [peer_id \in PeerIds |-> NotConnected],
                      last |-> [kind |-> "none"]]

\* sockets.next().await: a connection to upgrade, an error, or the end.
ListenerNext ==
    /\ listener.pc = "next"
    /\ \E item \in {"Some(Ok)", "Some(Err)", "None"} :
          listener' =
             CASE item = "Some(Ok)" -> [listener EXCEPT !.pc = "upgrade"]
               [] item = "Some(Err)" ->
                     [listener EXCEPT !.pc = "exited", !.exit = "stream_err"]
               [] OTHER ->
                     [listener EXCEPT !.pc = "exited", !.exit = "stream_end"]

\* A loop that gives up on the first failed upgrade.
UpgradeFails_returning ==
    /\ listener.pc = "upgrade"
    /\ listener' = [listener EXCEPT
                      !.pc = "exited",
                      !.exit = "upgrade_err",
                      !.last = [kind |-> "upgrade_failed"]]

\* conn_fut.await fails: the loop goes on.
UpgradeFails ==
    /\ listener.pc = "upgrade"
    /\ listener' = [listener EXCEPT
                      !.pc = "next",
                      !.last = [kind |-> "upgrade_failed"]]

\* conn_fut.await yields the connection: it is checked, and then a peer is
\* started with its socket, or the socket is closed and the loop goes on.
UpgradeSucceeds ==
    /\ listener.pc = "upgrade"
    /\ \E remote_peer_id \in PeerIds :
       \E role \in PeerRoles :
          LET conn == [remote_peer_id |-> remote_peer_id, role |-> role]
              ok == check_new_inbound_connection(listener, conn)
              seen == [remote_peer_id |-> remote_peer_id, role |-> role,
                       already_connected |->
                           remote_peer_id \in connected_peers(listener.peers),
                       unknown_inbound_conns |->
                           unknown_inbound_conns(listener.peers)]
          IN  IF IsPanic(ok)
              THEN listener' =
                      [listener EXCEPT
                         !.pc = "exited",
                         !.exit = "panic",
                         !.last = seen @@ [kind |-> "panicked",
                                           socket |-> "dropped",
                                           peer_started |-> FALSE]]
              ELSE IF ~ ok.ok
              THEN listener' =
                      [listener EXCEPT
                         !.pc = "next",
                         !.last = seen @@ [kind |-> "rejected",
                                           socket |-> "closed",
                                           peer_started |-> FALSE]]
              ELSE listener' =
                      [listener EXCEPT
                         !.pc = "next",
                         !.peers[remote_peer_id] =
                             ConnectedPeer("Inbound", role),
                         !.last = seen @@ [kind |-> "accepted",
                                           socket |-> "peer",
                                           peer_started |-> TRUE]]

\* A connected peer goes away.
PeerDisconnects ==
    \E peer_id \in connected_peers(listener.peers) :
       listener' = [listener EXCEPT !.peers[peer_id] = NotConnected]

\* This node has dialled a peer that was not connected.
OutboundConnect ==
    \E peer_id \in PeerIds \ connected_peers(listener.peers) :
    \E role \in PeerRoles :
       /\ peer_id # network_context_peer_id
       /\ listener' = [listener EXCEPT
                         !.peers[peer_id] = ConnectedPeer("Outbound", role)]

NextListen ==
    /\ \/ ListenerNext
       \/ UpgradeFails
       \/ UpgradeSucceeds
       \/ PeerDisconnects
       \/ OutboundConnect
    /\ UNCHANGED <<layers, outcome, as_written, in_flight, held_tree, phase>>

SpecListen == InitListen /\ [][NextListen]_vars

StopsOnlyWithStream ==
    /\ listener.pc = "exited" => listener.exit \in {"stream_err", "stream_end"}
    /\ listener.pc # "exited" => listener.exit = "none"

\* The connection dealt with last is the self-dial of a peer of unknown role.
LastIsUnknownSelfDial ==
    /\ listener.last.kind = "panicked"
    /\ listener.last.role = "Unknown"
    /\ listener.last.remote_peer_id = network_context_peer_id

InLockStepAt(self) ==
    LET pending_build == init_pending_build(self).pending_build
        above == self.depth < PeakHeight - 1
        at_foot == self.depth = PeakHeight - 1
    IN  /\ is_in_peak(self.position_info) <=> above
        /\ pending_build.kind = "AbovePeakFeet" <=> above
        /\ pending_build.kind = "FootOfPeak" <=> at_foot
        /\ pending_build.kind = "BelowPeak" <=> (~ above /\ ~ at_foot)
        /\ still_in_peak(self) <=> above
        /\ at_foot => /\ self.position_info.kind = "PeakFootOrBelow"
                      /\ self.position_in_new_peak.some
                      /\ is_single_node_mut(self.position_in_new_peak.v)

RECURSIVE InLockStep(_)
InLockStep(self) ==
    /\ InLockStepAt(self)
    /\ Bind(maybe_end_recursion(init_pending_build(self).self), LAMBDA step :
          /\ ~ IsPanic(step)
          /\ step.kind = "Continue" =>
                Bind(branch(self), LAMBDA sub :
                   /\ ~ IsPanic(sub)
                   /\ InLockStep(sub.left)
                   /\ InLockStep(sub.right)))

RECURSIVE SameFlavour(_)
SameFlavour(self) ==
    Bind(init_pending_build(self), LAMBDA init :
    Bind(maybe_end_recursion(init.self), LAMBDA step :
       /\ ~ IsPanic(step)
       /\ step.kind = "End" => init.pending_build.kind # "AbovePeakFeet"
       /\ step.kind = "Continue" =>
             Bind(branch(init.self), LAMBDA sub :
                /\ ~ IsPanic(sub)
                /\ Bind(build(sub.left), LAMBDA left :
                   Bind(build(sub.right), LAMBDA right :
                      /\ ~ IsPanic(left)
                      /\ ~ IsPanic(right)
                      /\ left.kind = right.kind
                      /\ left.kind = "InOrAtFootOfPeak" <=>
                            init.pending_build.kind = "AbovePeakFeet"))
                /\ SameFlavour(sub.left)
                /\ SameFlavour(sub.right))))

=============================================================================
